---- MODULE Spec2Model ----
(***************************************************************************)
(* Model of the AEO benchmark evaluator (src/green/agent.py): the tool     *)
(* sandbox, the action parser, the four-tier scoring engine and the        *)
(* evaluation loop.                                                        *)
(*                                                                         *)
(* Text is modelled as a sequence of tokens (records with a field t).      *)
(* File and directory names are sequences of character codes, so that the  *)
(* textual prefix test and the sort order of the source are computed as    *)
(* the source computes them.                                               *)
(***************************************************************************)
EXTENDS Integers, Sequences, FiniteSets, TLC

VARIABLES
    toolLog,       \* SpecTool: the execute_tool calls made so far, with their outcomes
    scoreIn,       \* SpecScore: the arguments of a score_documentation call
    scoreOut,      \* SpecScore: what that call gave
    pc,            \* evaluate_test_case: where the coroutine is
    test_case,     \* its test case
    max_steps,     \* its step budget
    step,          \* the loop variable: the iterations completed
    context_id,    \* the conversation identifier
    next_message,  \* the next outbound message
    sent,          \* the messages handed to send_message, with their identifiers
    executed,      \* the execute_tool calls of this test case
    scored,        \* the score_documentation calls of this test case
    last_reply,    \* the outcome of the latest exchange
    result,        \* what evaluate_test_case gave
    runPc,         \* execute: where the coroutine is
    user_input,    \* the text of the request it received
    test_ids,      \* the test_ids of its test configuration
    selected_cases,\* the names of the cases it selected
    case_index,    \* the position of the for loop in selected_cases
    results,       \* its list of result records
    total_score,   \* its running sums
    max_possible,
    enqueued,      \* the messages it put on the event queue
    parseIn,       \* SpecParse: the text given to the parsers
    parseOut,      \* SpecParse: what the parsers made of it
    ctx_id_to_messages, \* white agent: the history of each conversation
    whiteLog,      \* the turns the white agent was given, and whether it replied
    ctx_id_to_state,    \* white2 agent: the AgentState of each conversation
    white2Log      \* the turns the white2 agent was given, and what it replied

toolVars  == <<toolLog>>
scoreVars == <<scoreIn, scoreOut>>
loopVars  == <<pc, test_case, max_steps, step, context_id, next_message, sent,
               executed, scored, last_reply, result>>
runVars   == <<runPc, user_input, test_ids, selected_cases, case_index, results, total_score,
               max_possible, enqueued>>
parseVars == <<parseIn, parseOut>>
whiteVars == <<ctx_id_to_messages, whiteLog>>
white2Vars == <<ctx_id_to_state, white2Log>>
agentVars == <<ctx_id_to_messages, whiteLog, ctx_id_to_state, white2Log>>
vars == <<toolLog, scoreIn, scoreOut, pc, test_case, max_steps, step, context_id,
          next_message, sent, executed, scored, last_reply, result,
          runPc, user_input, test_ids, selected_cases, case_index, results,
          total_score, max_possible, enqueued, parseIn, parseOut,
          ctx_id_to_messages, whiteLog, ctx_id_to_state, white2Log>>

-----------------------------------------------------------------------------
(* Bounds of the model                                                     *)

MaxToolCalls == 1
MaxListCalls == 3
MaxCases == 2
RunSteps == 2
MaxSteps == 2
WhiteTurns == 4
White2Turns == 3

-----------------------------------------------------------------------------
(* Generic helpers                                                         *)

Range(s) == {s[i] : i \in 1..Len(s)}

Front(s) == SubSeq(s, 1, Len(s) - 1)

\* str.startswith on sequences of character codes
StartsWith(s, p) == Len(p) <= Len(s) /\ SubSeq(s, 1, Len(p)) = p

\* the `in` operator of str: p occurs as a contiguous run of s
Contains(s, p) == \E i \in 1..(Len(s) - Len(p) + 1) : SubSeq(s, i, i + Len(p) - 1) = p

\* the order of str (and of pathlib paths with one parent): by code point
RECURSIVE LexLess(_, _)
LexLess(a, b) ==
    IF b = <<>> THEN FALSE
    ELSE IF a = <<>> THEN TRUE
    ELSE IF a[1] # b[1] THEN a[1] < b[1]
    ELSE LexLess(Tail(a), Tail(b))

\* sorted(...) of a set of names
RECURSIVE SortedNames(_)
SortedNames(S) ==
    IF S = {} THEN <<>>
    ELSE LET m == CHOOSE x \in S : \A y \in S \ {x} : LexLess(x, y)
         IN  <<m>> \o SortedNames(S \ {m})

-----------------------------------------------------------------------------
(* JSON values: records with a field ty.                                   *)
(*   str  : toks, the characters of the string as tokens                   *)
(*   num  : n                                                              *)
(*   null, list (a non-empty array), obj : m, a function from keys         *)

JStr(toks) == [ty |-> "str", toks |-> toks]
JNum(n)    == [ty |-> "num", n |-> n]
JNull      == [ty |-> "null"]
JList      == [ty |-> "list"]
JObj(m)    == [ty |-> "obj", m |-> m]
EmptyMap   == [k \in {} |-> JNull]

\* dict.get(key, default); the caller has checked v.ty = "obj"
Get(v, key, default) == IF key \in DOMAIN v.m THEN v.m[key] ELSE default

\* the truth value Python gives a decoded JSON value
Truthy(v) ==
    CASE v.ty = "str"  -> v.toks # <<>>
      [] v.ty = "num"  -> v.n # 0
      [] v.ty = "null" -> FALSE
      [] v.ty = "list" -> TRUE
      [] v.ty = "obj"  -> DOMAIN v.m # {}

-----------------------------------------------------------------------------
(* Tokens                                                                  *)

Tok(t)     == [t |-> t]
Seg(name)  == [t |-> "seg", name |-> name]   \* a run of name characters in a path
SL         == Tok("/")
NUL        == Tok("nul")                     \* an embedded NUL character
Word(s)    == [t |-> "word", s |-> s]        \* a word such as a tool name

-----------------------------------------------------------------------------
(* The file system the test cases live in.  Names are character codes:     *)
(* 46 '.', 47 '/', 50 '2', 97.. 'a'..                                      *)

DOT          == <<46>>
DOTDOT       == <<46, 46>>
\* 'ground_truth'
GROUND_TRUTH == <<103, 114, 111, 117, 110, 100, 95, 116, 114, 117, 116, 104>>

N_t  == <<116>>            \* test_repos
N_q  == <<113>>            \* a test case directory
N_q2 == <<113, 50>>        \* another test case directory, whose name starts with q
N_e  == <<101>>            \* a directory outside test_repos
N_p  == <<112>>
N_m  == <<109>>
N_a  == <<97>>
N_at == <<97, 46, 116>>    \* a.t
N_n  == <<110>>
N_h  == <<46, 104>>        \* .h, a dotfile
N_k  == <<107>>            \* a symbolic link
N_b  == <<98>>             \* a file that is not text
N_f  == <<102>>
N_s  == <<115>>

Node(path, type, target, text) ==
    [path |-> path, type |-> type, target |-> target, text |-> text]

FileSystem ==
    { Node(<<N_t>>, "dir", <<>>, ""),
      Node(<<N_t, N_q>>, "dir", <<>>, ""),
      Node(<<N_t, N_q, N_m>>, "file", <<>>, "text:q/m"),
      Node(<<N_t, N_q, N_a>>, "dir", <<>>, ""),
      Node(<<N_t, N_q, N_a, N_n>>, "file", <<>>, "text:q/a/n"),
      Node(<<N_t, N_q, N_at>>, "file", <<>>, "text:q/a.t"),
      Node(<<N_t, N_q, N_h>>, "file", <<>>, "text:q/.h"),
      Node(<<N_t, N_q, N_b>>, "binary", <<>>, ""),
      Node(<<N_t, N_q, N_k>>, "link", <<N_e, N_p>>, ""),
      Node(<<N_t, N_q, GROUND_TRUTH>>, "dir", <<>>, ""),
      Node(<<N_t, N_q, GROUND_TRUTH, N_f>>, "file", <<>>, "text:q/ground_truth/f"),
      Node(<<N_t, N_q2>>, "dir", <<>>, ""),
      Node(<<N_t, N_q2, N_s>>, "file", <<>>, "text:q2/s"),
      Node(<<N_e>>, "dir", <<>>, ""),
      Node(<<N_e, N_p>>, "file", <<>>, "text:/e/p") }

HasNode(path)  == \E n \in FileSystem : n.path = path
NodeAt(path)   == CHOOSE n \in FileSystem : n.path = path
IsLink(path)   == HasNode(path) /\ NodeAt(path).type = "link"

\* Path.resolve(): "." dropped, ".." pops, a symbolic link replaced by its target
RECURSIVE ResolveFrom(_, _)
ResolveFrom(cur, rest) ==
    IF rest = <<>> THEN cur
    ELSE LET c == Head(rest)
         IN  IF c = DOT THEN ResolveFrom(cur, Tail(rest))
             ELSE IF c = DOTDOT
                  THEN ResolveFrom(IF cur = <<>> THEN <<>> ELSE Front(cur), Tail(rest))
             ELSE IF IsLink(Append(cur, c))
                  THEN ResolveFrom(NodeAt(Append(cur, c)).target, Tail(rest))
             ELSE ResolveFrom(Append(cur, c), Tail(rest))

Resolve(comps) == ResolveFrom(<<>>, comps)

\* str(path) of an absolute path
RECURSIVE PathStr(_)
PathStr(comps) ==
    IF comps = <<>> THEN <<>>
    ELSE <<47>> \o Head(comps) \o PathStr(Tail(comps))

\* Path.exists(), is_dir(), is_file() of a resolved path
Exists(path) == HasNode(path)
IsDir(path)  == HasNode(path) /\ NodeAt(path).type = "dir"
IsFile(path) == HasNode(path) /\ NodeAt(path).type \in {"file", "binary"}

\* the components of a path string
RECURSIVE PathComps(_)
PathComps(toks) ==
    IF toks = <<>> THEN <<>>
    ELSE IF Head(toks).t = "seg" THEN <<Head(toks).name>> \o PathComps(Tail(toks))
    ELSE IF Head(toks).t = "/" THEN PathComps(Tail(toks))
    ELSE <<<<63>>>> \o PathComps(Tail(toks))

\* repo_path / path: an absolute path replaces the left operand
JoinPath(base, toks) ==
    IF toks # <<>> /\ Head(toks).t = "/" THEN PathComps(toks)
    ELSE base \o PathComps(toks)

\* the entries iterdir() yields, as names
Entries(dir) ==
    {n.path[Len(n.path)] : n \in {x \in FileSystem :
        Len(x.path) = Len(dir) + 1 /\ SubSeq(x.path, 1, Len(dir)) = dir}}

-----------------------------------------------------------------------------
(* Tool sandbox                                                            *)

\* what execute_tool gives back: a text result, or an exception
ToolOut(kind, msg, arg, items, text) ==
    [kind |-> kind, msg |-> msg, arg |-> arg, items |-> items, text |-> text]

ToolError(msg, arg) == ToolOut("error", msg, arg, <<>>, "")
ToolRaise(exc)      == ToolOut("raised", exc, <<>>, <<>>, "")

\* the listing loop without its two `continue` filters
RECURSIVE ListingOfAll(_, _)
ListingOfAll(dir, names) ==
    IF names = <<>> THEN <<>>
    ELSE <<(IF IsDir(Resolve(Append(dir, Head(names)))) THEN Head(names) \o <<47>>
            ELSE Head(names))>> \o ListingOfAll(dir, Tail(names))

\* lines 154-163: the listing of a directory
RECURSIVE ListingOf(_, _)
ListingOf(dir, names) ==
    IF names = <<>> THEN <<>>
    ELSE LET nm == Head(names)
             rest == ListingOf(dir, Tail(names))
         IN  IF StartsWith(nm, DOT) THEN rest
             ELSE IF nm = GROUND_TRUTH THEN rest
             ELSE <<(IF IsDir(Resolve(Append(dir, nm))) THEN nm \o <<47>> ELSE nm)>> \o rest

list_directory(args, repo_path) ==
    IF args.ty # "obj" THEN ToolRaise("AttributeError")
    ELSE LET path == Get(args, "path", JStr(<<Seg(DOT)>>))
         IN  IF path.ty # "str" THEN ToolRaise("TypeError")
             ELSE IF \E i \in 1..Len(path.toks) : path.toks[i].t = "nul"
                  THEN ToolError("Invalid path", <<>>)
             ELSE LET target_path == Resolve(JoinPath(repo_path, path.toks))
                  IN  IF ~StartsWith(PathStr(target_path), PathStr(Resolve(repo_path)))
                      THEN ToolError("Cannot access paths outside the repository", <<>>)
                      ELSE IF ~Exists(target_path)
                           THEN ToolError("Path does not exist", path.toks)
                      ELSE IF ~IsDir(target_path)
                           THEN ToolError("Path is not a directory", path.toks)
                      ELSE ToolOut("listing", "", <<>>,
                                   ListingOf(target_path, SortedNames(Entries(target_path))), "")

read_file(args, repo_path) ==
    IF args.ty # "obj" THEN ToolRaise("AttributeError")
    ELSE LET path == Get(args, "path", JStr(<<>>))
         IN  IF ~Truthy(path) THEN ToolError("'path' parameter is required", <<>>)
             ELSE IF path.ty # "str" THEN ToolRaise("TypeError")
             ELSE IF \E i \in 1..Len(path.toks) : path.toks[i].t = "nul"
                  THEN ToolError("Invalid path", <<>>)
             ELSE LET target_path == Resolve(JoinPath(repo_path, path.toks))
                  IN  IF ~StartsWith(PathStr(target_path), PathStr(Resolve(repo_path)))
                      THEN ToolError("Cannot access paths outside the repository", <<>>)
                      ELSE IF Contains(PathStr(target_path), GROUND_TRUTH)
                           THEN ToolError("Cannot access ground truth files", <<>>)
                      ELSE IF ~Exists(target_path)
                           THEN ToolError("File does not exist", path.toks)
                      ELSE IF ~IsFile(target_path)
                           THEN ToolError("Path is not a file", path.toks)
                      ELSE IF NodeAt(target_path).type = "binary"
                           THEN ToolOut("error", "Error reading file", <<>>, <<>>, "")
                      ELSE ToolOut("contents", "", <<>>, <<>>, NodeAt(target_path).text)

\* tool_name is a JSON value: the decoded `name` of the action
execute_tool(tool_name, args, repo_path) ==
    IF tool_name = JStr(<<Word("list_directory")>>) THEN list_directory(args, repo_path)
    ELSE IF tool_name = JStr(<<Word("read_file")>>) THEN read_file(args, repo_path)
    ELSE ToolError("Unknown tool", <<>>)

-----------------------------------------------------------------------------
(* JSON text.  A text is a sequence of tokens:                             *)
(*   {  }            braces                                                *)
(*   key k           "k": (with the comma before it, if any)               *)
(*   quote, escaped_quote, nl, escaped_nl                                  *)
(*   sp              a blank                                               *)
(*   lit v           a literal: a number, null or an array                 *)
(*   fence_json, fence   a code fence labelled json, a bare code fence     *)
(*   open/close tag  <tag> and </tag>                                      *)
(*   prose n kws     n characters of prose in which the keyword families   *)
(*                   kws occur                                             *)

LB          == Tok("{")
RB          == Tok("}")
QT          == Tok("quote")
EQT         == Tok("escaped_quote")
NL          == Tok("nl")
ENL         == Tok("escaped_nl")
SP          == Tok("sp")
FENCE_JSON  == Tok("fence_json")
FENCE       == Tok("fence")
Key(k)      == [t |-> "key", k |-> k]
Lit(v)      == [t |-> "lit", v |-> v]
Open(tag)   == [t |-> "open", tag |-> tag]
Close(tag)  == [t |-> "close", tag |-> tag]
Prose(n, kws) == [t |-> "prose", n |-> n, kws |-> kws, caps |-> FALSE]
\* the same words written in capitals
ProseUpper(n, kws) == [t |-> "prose", n |-> n, kws |-> kws, caps |-> TRUE]

IsSpace(tok) == tok.t \in {"sp", "nl"}
\* three backticks occur in both kinds of fence
FenceKinds == {"fence", "fence_json"}
IsFence(tok) == tok.t \in FenceKinds

\* the number of characters a token stands for
TokLen(tok) ==
    CASE tok.t = "prose"   -> tok.n
      [] tok.t = "fence_json" -> 7
      [] tok.t = "fence"      -> 3
      [] OTHER             -> 1

RECURSIVE TextLen(_)
TextLen(s) == IF s = <<>> THEN 0 ELSE TokLen(Head(s)) + TextLen(Tail(s))

\* str.strip()
RECURSIVE LStrip(_)
LStrip(s) == IF s # <<>> /\ IsSpace(Head(s)) THEN LStrip(Tail(s)) ELSE s
RECURSIVE RStrip(_)
RStrip(s) == IF s # <<>> /\ IsSpace(s[Len(s)]) THEN RStrip(Front(s)) ELSE s
Strip(s) == RStrip(LStrip(s))

\* str.find(token, start): the first position >= from of a token of one of the kinds, 0 if none
FindFrom(s, from, kinds) ==
    IF \E i \in from..Len(s) : s[i].t \in kinds
    THEN CHOOSE i \in from..Len(s) :
             s[i].t \in kinds /\ \A j \in from..(i - 1) : s[j].t \notin kinds
    ELSE 0

\* str.rfind: the last position of a token of one of the kinds, 0 if none
FindLast(s, kinds) ==
    IF \E i \in 1..Len(s) : s[i].t \in kinds
    THEN CHOOSE i \in 1..Len(s) :
             s[i].t \in kinds /\ \A j \in (i + 1)..Len(s) : s[j].t \notin kinds
    ELSE 0

\* s[:-1]: the text without its last character
DropLastChar(s) ==
    IF s = <<>> THEN <<>>
    ELSE LET last == s[Len(s)]
         IN  IF last.t = "prose" /\ last.n > 1
             THEN Append(Front(s), Prose(last.n - 1, last.kws))
             ELSE Front(s)

\* json.dumps escapes quotes and newlines inside a string
EscapeTok(tok) ==
    CASE tok.t = "quote" -> EQT
      [] tok.t = "nl"    -> ENL
      [] OTHER           -> tok
UnescapeTok(tok) ==
    CASE tok.t = "escaped_quote" -> QT
      [] tok.t = "escaped_nl"    -> NL
      [] OTHER                   -> tok
Escape(s)   == [i \in 1..Len(s) |-> EscapeTok(s[i])]
Unescape(s) == [i \in 1..Len(s) |-> UnescapeTok(s[i])]

\* the order json.dumps writes the keys of the objects the model builds
KeyOrder == <<"name", "kwargs", "path", "readme", "metadata", "@context", "@type",
              "description", "purpose", "dependencies", "run_command",
              "clarity", "completeness", "formatting", "reasoning", "feedback">>

\* json.dumps(value)
RECURSIVE Dumps(_)
RECURSIVE DumpsMembers(_, _)
DumpsMembers(m, i) ==
    IF i > Len(KeyOrder) THEN <<>>
    ELSE (IF KeyOrder[i] \in DOMAIN m
          THEN <<Key(KeyOrder[i])>> \o Dumps(m[KeyOrder[i]])
          ELSE <<>>) \o DumpsMembers(m, i + 1)
Dumps(v) ==
    CASE v.ty = "str" -> <<QT>> \o Escape(v.toks) \o <<QT>>
      [] v.ty = "obj" -> <<LB>> \o DumpsMembers(v.m, 1) \o <<RB>>
      [] OTHER        -> <<Lit(v)>>

\* json.loads(text): [ok, v], ok = FALSE standing for JSONDecodeError
ParseFail == [ok |-> FALSE, v |-> JNull, next |-> 0]
RECURSIVE SkipSpace(_, _)
SkipSpace(s, i) == IF i <= Len(s) /\ IsSpace(s[i]) THEN SkipSpace(s, i + 1) ELSE i

RECURSIVE ParseValue(_, _)
RECURSIVE ParseMembers(_, _, _)
ParseValue(s, i) ==
    IF i > Len(s) THEN ParseFail
    ELSE CASE s[i].t = "lit" -> [ok |-> TRUE, v |-> s[i].v, next |-> i + 1]
           [] s[i].t = "quote" ->
                LET j == FindFrom(s, i + 1, {"quote"})
                IN  IF j = 0 \/ \E k \in (i + 1)..(j - 1) : s[k].t = "nl"
                    THEN ParseFail
                    ELSE [ok |-> TRUE, v |-> JStr(Unescape(SubSeq(s, i + 1, j - 1))),
                          next |-> j + 1]
           [] s[i].t = "{" -> ParseMembers(s, SkipSpace(s, i + 1), EmptyMap)
           [] OTHER -> ParseFail
ParseMembers(s, i, m) ==
    IF i > Len(s) THEN ParseFail
    ELSE IF s[i].t = "}" THEN [ok |-> TRUE, v |-> JObj(m), next |-> i + 1]
    ELSE IF s[i].t = "key"
         THEN LET r == ParseValue(s, SkipSpace(s, i + 1))
              IN  IF ~r.ok THEN ParseFail
                  ELSE ParseMembers(s, SkipSpace(s, r.next),
                           [k \in DOMAIN m \cup {s[i].k} |->
                               IF k = s[i].k THEN r.v ELSE m[k]])
    ELSE ParseFail

Loads(s) ==
    LET r == ParseValue(s, SkipSpace(s, 1))
    IN  IF r.ok /\ SkipSpace(s, r.next) = Len(s) + 1
        THEN [ok |-> TRUE, v |-> r.v]
        ELSE [ok |-> FALSE, v |-> JNull]

-----------------------------------------------------------------------------
(* Scoring engine                                                          *)

\* lines 453-456, 337-340, 400-403: the text between the first json fence and
\* the next fence; find() gives -1 when there is no next fence
AfterJsonFence(text) ==
    LET start == FindFrom(text, 1, {"fence_json"}) + 1
        end   == FindFrom(text, start, FenceKinds)
    IN  IF end = 0 THEN Strip(DropLastChar(SubSeq(text, start, Len(text))))
        ELSE Strip(SubSeq(text, start, end - 1))

\* lines 457-460: the text between a leading fence and the next fence
AfterFence(text) ==
    LET end == FindFrom(text, 2, FenceKinds)
    IN  IF end = 0 THEN Strip(DropLastChar(SubSeq(text, 2, Len(text))))
        ELSE Strip(SubSeq(text, 2, end - 1))

\* lines 341-342, 404-405: the text between a leading fence and the last fence
UpToLastFence(text) ==
    LET end == FindLast(text, FenceKinds)
    IN  IF end <= 1 THEN <<>> ELSE Strip(SubSeq(text, 2, end - 1))

HasJsonFence(text) == \E i \in 1..Len(text) : text[i].t = "fence_json"
StartsWithFence(text) == text # <<>> /\ IsFence(text[1])

\* lines 450-464: step 0 of score_documentation
ParseResponse(response) ==
    LET text == Strip(response)
    IN  Loads(IF HasJsonFence(text) THEN AfterJsonFence(text)
              ELSE IF StartsWithFence(text) THEN AfterFence(text)
              ELSE text)

\* str.lower(), line 212
Lower(text) ==
    [i \in 1..Len(text) |->
        IF text[i].t = "prose" THEN Prose(text[i].n, text[i].kws) ELSE text[i]]

\* lines 203-207: the keyword lists, all in lower case; a prose token names the
\* lists of which it holds a word, and a code fence is a keyword of "example"
SECTION_KEYWORDS == {"installation", "usage", "example"}

KeywordIn(section, text) ==
    \/ \E i \in 1..Len(text) :
           text[i].t = "prose" /\ ~text[i].caps /\ section \in text[i].kws
    \/ section = "example" /\ \E i \in 1..Len(text) : IsFence(text[i])

\* the keywords looked for in the README as written
detect_sectionsCased(readme) ==
    [section \in SECTION_KEYWORDS |-> KeywordIn(section, readme)]

\* lines 210-216
detect_sections(readme) ==
    LET readme_lower == Lower(readme)
    IN  [section \in SECTION_KEYWORDS |-> KeywordIn(section, readme_lower)]

\* len(value) of a decoded JSON value that has a length
LenOf(v) ==
    CASE v.ty = "str"  -> TextLen(v.toks)
      [] v.ty = "list" -> 1
      [] v.ty = "obj"  -> Cardinality(DOMAIN v.m)
      [] OTHER         -> 0

SCHEMA_ORG == JStr(<<Word("https://schema.org")>>)

TierOut(raised, score) == [raised |-> raised, score |-> score]

\* tier 1 with the 5 points of line 235 given before the test of line 229
score_tier1_structuralEarly(parsed) ==
    IF ~parsed.ok \/ parsed.v.ty = "null" THEN TierOut(FALSE, 5)
    ELSE IF parsed.v.ty # "obj" THEN TierOut(TRUE, 0)
    ELSE LET readme   == Get(parsed.v, "readme", JStr(<<>>))
             metadata == Get(parsed.v, "metadata", JObj(EmptyMap))
         IN  IF Truthy(readme) /\ readme.ty = "num" THEN TierOut(TRUE, 0)
             ELSE IF metadata.ty # "obj" THEN TierOut(TRUE, 0)
             ELSE LET has_context == Get(metadata, "@context", JNull) = SCHEMA_ORG
                      has_type    == Truthy(Get(metadata, "@type", JNull))
                      has_name    == Truthy(Get(metadata, "name", JNull))
                  IN  TierOut(FALSE,
                              5 + (IF Truthy(readme) /\ LenOf(readme) > 100 THEN 5 ELSE 0)
                                + (IF has_context /\ has_type /\ has_name THEN 5 ELSE 0))

\* lines 219-264; parsed is the Loads result
score_tier1_structural(parsed) ==
    IF ~parsed.ok \/ parsed.v.ty = "null" THEN TierOut(FALSE, 0)
    ELSE IF parsed.v.ty # "obj" THEN TierOut(TRUE, 0)             \* .get of a non-dict
    ELSE LET readme   == Get(parsed.v, "readme", JStr(<<>>))
             metadata == Get(parsed.v, "metadata", JObj(EmptyMap))
         IN  IF Truthy(readme) /\ readme.ty = "num" THEN TierOut(TRUE, 0)   \* len(number)
             ELSE IF metadata.ty # "obj" THEN TierOut(TRUE, 0)    \* .get of a non-dict
             ELSE LET has_context == Get(metadata, "@context", JNull) = SCHEMA_ORG
                      has_type    == Truthy(Get(metadata, "@type", JNull))
                      has_name    == Truthy(Get(metadata, "name", JNull))
                  IN  TierOut(FALSE,
                              5 + (IF Truthy(readme) /\ LenOf(readme) > 100 THEN 5 ELSE 0)
                                + (IF has_context /\ has_type /\ has_name THEN 5 ELSE 0))

\* lines 267-286; readme is a truthy JSON value
score_tier2_sections(readme) ==
    IF readme.ty # "str" THEN TierOut(TRUE, 0)                    \* .lower of a non-str
    ELSE LET sections == detect_sections(readme.toks)
         IN  TierOut(FALSE, (IF sections["installation"] THEN 8 ELSE 0)
                          + (IF sections["usage"] THEN 9 ELSE 0)
                          + (IF sections["example"] THEN 8 ELSE 0))

\* the judge: the outcome of one completion() call
JudgeReply(raised, text) == [raised |-> raised, text |-> text]

\* Clamp without the min(hi, ...): a sub-score is floored at 0 but not capped
ClampNoCap(x, hi) == IF x > 0 THEN x ELSE 0

\* Clamp without the max(0, ...): a sub-score is capped but not floored at 0
ClampNoFloor(x, hi) == IF x < hi THEN x ELSE hi

\* min(hi, max(0, x))
Clamp(x, hi) ==
    LET lo == IF x > 0 THEN x ELSE 0
    IN  IF lo < hi THEN lo ELSE hi

JudgedOut(score, error) == [score |-> score, error |-> error]

\* lines 323-360 and 386-423: the judged part of a tier
JudgedScore(reply, keys, maxima) ==
    IF reply.raised THEN JudgedOut(0, TRUE)
    ELSE LET result_text == Strip(reply.text)
             scores == Loads(IF HasJsonFence(result_text) THEN AfterJsonFence(result_text)
                             ELSE IF StartsWithFence(result_text)
                                  THEN UpToLastFence(result_text)
                             ELSE result_text)
         IN  IF ~scores.ok THEN JudgedOut(0, TRUE)                 \* JSONDecodeError
             ELSE IF scores.v.ty # "obj" THEN JudgedOut(0, TRUE)   \* AttributeError
             ELSE LET sub(i) == Get(scores.v, keys[i], JNum(0))
                  IN  IF \E i \in 1..3 : sub(i).ty # "num"
                      THEN JudgedOut(0, TRUE)                      \* TypeError
                      ELSE JudgedOut(Clamp(sub(1).n, maxima[1]) + Clamp(sub(2).n, maxima[2])
                                       + Clamp(sub(3).n, maxima[3]), FALSE)

TIER3_KEYS == <<"purpose", "dependencies", "run_command">>
TIER4_KEYS == <<"clarity", "completeness", "formatting">>
SUB_MAXIMA == <<12, 10, 8>>

\* a failed judgment falling back to the partial credit of line 298
score_tier3_accuracyCredit(facts, reply) ==
    IF ~Truthy(facts) THEN [score |-> 15, error |-> FALSE, judged |-> FALSE]
    ELSE LET j == JudgedScore(reply, TIER3_KEYS, SUB_MAXIMA)
         IN  [score |-> IF j.error THEN 15 ELSE j.score, error |-> j.error, judged |-> TRUE]

\* lines 289-360: [score, error, judged]
score_tier3_accuracy(facts, reply) ==
    IF ~Truthy(facts) THEN [score |-> 15, error |-> FALSE, judged |-> FALSE]
    ELSE LET j == JudgedScore(reply, TIER3_KEYS, SUB_MAXIMA)
         IN  [score |-> j.score, error |-> j.error, judged |-> TRUE]

\* lines 363-423
score_tier4_quality(reply) ==
    LET j == JudgedScore(reply, TIER4_KEYS, SUB_MAXIMA)
    IN  [score |-> j.score, error |-> j.error, judged |-> TRUE]

\* a test case (lines 50-57); facts is a JSON value, null when there is no facts.json
TestCase(name, repo_path, facts, reference) ==
    [name |-> name, repo_path |-> repo_path, facts |-> facts,
     ground_truth_readme |-> reference]

\* a record whose section score is withheld when tier 3 gave nothing
ScoreRecordJudged(t1, t2, t3, t4, details) ==
    [tier1_structural |-> t1, tier2_sections |-> IF t3 = 0 THEN 0 ELSE t2,
     tier3_accuracy |-> t3, tier4_quality |-> t4,
     total_score |-> t1 + (IF t3 = 0 THEN 0 ELSE t2) + t3 + t4, max_score |-> 100,
     details |-> details]

ScoreRecord(t1, t2, t3, t4, details) ==
    [tier1_structural |-> t1, tier2_sections |-> t2, tier3_accuracy |-> t3,
     tier4_quality |-> t4, total_score |-> t1 + t2 + t3 + t4, max_score |-> 100,
     details |-> details]

Details(parse_error, valid_json, e3, e4) ==
    [parse_error |-> parse_error, valid_json |-> valid_json,
     tier3_error |-> e3, tier4_error |-> e4]

\* what a call of score_documentation gives: a record, or an exception; judged
\* lists the tiers the judge was called for
ScoreOut(raised, rec, judged) == [raised |-> raised, rec |-> rec, judged |-> judged]
ScoreRaise(judged) ==
    ScoreOut(TRUE, ScoreRecord(0, 0, 0, 0, Details(FALSE, FALSE, FALSE, FALSE)), judged)

\* lines 426-503; judge3 and judge4 are what the judge does if it is called
score_documentation(response, tc, judge3, judge4) ==
    LET parsed == ParseResponse(response)
        tier1  == score_tier1_structural(parsed)
        dets(e3, e4) == Details(~parsed.ok, parsed.ok /\ parsed.v.ty # "null", e3, e4)
    IN  IF tier1.raised THEN ScoreRaise(<<>>)
        ELSE IF ~(parsed.ok /\ Truthy(parsed.v))
             THEN ScoreOut(FALSE, ScoreRecord(tier1.score, 0, 0, 0, dets(FALSE, FALSE)), <<>>)
        ELSE LET readme == Get(parsed.v, "readme", JStr(<<>>))
             IN  IF ~Truthy(readme)
                 THEN ScoreOut(FALSE, ScoreRecord(tier1.score, 0, 0, 0, dets(FALSE, FALSE)),
                               <<>>)
                 ELSE LET tier2 == score_tier2_sections(readme)
                          tier3 == score_tier3_accuracy(tc.facts, judge3)
                          tier4 == score_tier4_quality(judge4)
                      IN  IF tier2.raised THEN ScoreRaise(<<>>)
                          ELSE ScoreOut(FALSE,
                                   ScoreRecord(tier1.score, tier2.score, tier3.score,
                                               tier4.score, dets(tier3.error, tier4.error)),
                                   (IF tier3.judged THEN <<"tier3">> ELSE <<>>)
                                       \o <<"tier4">>)

-----------------------------------------------------------------------------
(* Action parser (the orchestrator's, lines 902-933)                       *)

RESPOND_ACTION_NAME == JStr(<<Word("respond")>>)

\* lines 730-733: re.findall of <tag>content</tag>, left to right, not overlapping
RECURSIVE TagMatches(_, _)
TagMatches(s, i) ==
    LET opens == {a \in i..Len(s) :
                    /\ s[a].t = "open"
                    /\ \E b \in (a + 1)..Len(s) : s[b].t = "close" /\ s[b].tag = s[a].tag}
    IN  IF opens = {} THEN <<>>
        ELSE LET a == CHOOSE x \in opens : \A y \in opens : x <= y
                 b == CHOOSE x \in (a + 1)..Len(s) :
                        /\ s[x].t = "close" /\ s[x].tag = s[a].tag
                        /\ \A y \in (a + 1)..(x - 1) :
                              ~(s[y].t = "close" /\ s[y].tag = s[a].tag)
             IN  <<[tag |-> s[a].tag, content |-> Strip(SubSeq(s, a + 1, b - 1))]>>
                    \o TagMatches(s, b + 1)

\* the dict built from the matches: a later match of a tag replaces an earlier one
parse_tags(str_with_tags) ==
    LET ms == TagMatches(str_with_tags, 1)
        names == {ms[i].tag : i \in 1..Len(ms)}
    IN  [tag \in names |->
            ms[CHOOSE i \in 1..Len(ms) :
                 ms[i].tag = tag /\ \A j \in (i + 1)..Len(ms) : ms[j].tag # tag].content]

\* lines 909-911: white_text[find("{") : rfind("}") + 1]
BraceSpan(text) ==
    LET json_start == FindFrom(text, 1, {"{"})
        json_end   == FindLast(text, {"}"})
    IN  IF json_end < json_start THEN <<>> ELSE SubSeq(text, json_start, json_end)

ActionOut(status, name, kwargs) == [status |-> status, name |-> name, kwargs |-> kwargs]

\* line 908: "{" in white_text
HasBrace(white_text) == \E i \in 1..Len(white_text) : white_text[i].t = "{"

\* lines 904-920: the text json.loads is given, when there is a json tag or a brace
ActionJson(white_text) ==
    LET tags == parse_tags(white_text)
    IN  IF "json" \in DOMAIN tags THEN tags["json"] ELSE BraceSpan(white_text)

\* lines 903-933.  status: "no_action" (line 913), "decode_error" (line 926),
\* "raised" (an AttributeError, which the except clause does not catch), "ok"
ParseAction(white_text) ==
    IF "json" \notin DOMAIN parse_tags(white_text) /\ ~HasBrace(white_text)
    THEN ActionOut("no_action", JNull, JNull)
    ELSE LET action_dict == Loads(ActionJson(white_text))
         IN  IF ~action_dict.ok THEN ActionOut("decode_error", JNull, JNull)
             ELSE IF action_dict.v.ty # "obj" THEN ActionOut("raised", JNull, JNull)
             ELSE ActionOut("ok", Get(action_dict.v, "name", JStr(<<>>)),
                            Get(action_dict.v, "kwargs", JObj(EmptyMap)))

-----------------------------------------------------------------------------
(* The candidate agent's parser: extract_json, src/white2/agent.py 231-301 *)

\* what extract_json gives: the decoded value, or the JSONDecodeError it raises
ExtractOut(loaded) ==
    IF loaded.ok THEN [status |-> "ok", v |-> loaded.v]
    ELSE [status |-> "raised", v |-> JNull]

\* line 238: re.search(r'<json>\s*(.*?)\s*</json>'): the leftmost <json> that has
\* a </json> after it, up to the first such </json>; <<0, 0>> if there is none
JsonTagSearch(text) ==
    LET opens == {a \in 1..Len(text) :
                    /\ text[a] = Open("json")
                    /\ \E b \in (a + 1)..Len(text) : text[b] = Close("json")}
    IN  IF opens = {} THEN <<0, 0>>
        ELSE LET a == CHOOSE x \in opens : \A y \in opens : x <= y
                 b == CHOOSE x \in (a + 1)..Len(text) :
                        /\ text[x] = Close("json")
                        /\ \A y \in (a + 1)..(x - 1) : text[y] # Close("json")
             IN  <<a, b>>

\* lines 252-273: the brace that closes the one at the start of the scan, by
\* depth counting outside strings; 0 if the text ends first.  A backslash and
\* the character after it are one token here, and a key token has both its quotes
RECURSIVE MatchBrace(_, _, _, _)
MatchBrace(text, i, depth, in_string) ==
    IF i > Len(text) THEN 0
    ELSE IF text[i].t = "quote" THEN MatchBrace(text, i + 1, depth, ~in_string)
    ELSE IF in_string THEN MatchBrace(text, i + 1, depth, in_string)
    ELSE IF text[i].t = "{" THEN MatchBrace(text, i + 1, depth + 1, in_string)
    ELSE IF text[i].t = "}"
         THEN IF depth = 1 THEN i ELSE MatchBrace(text, i + 1, depth - 1, in_string)
    ELSE MatchBrace(text, i + 1, depth, in_string)

\* lines 276-288: the greedy ```json ... ``` match and the brace span inside it;
\* found is FALSE when the strategy gives nothing
GreedyFence(text) ==
    LET start == FindFrom(text, 1, {"fence_json"})
        end   == FindLast(text, FenceKinds)
    IN  IF start = 0 \/ end <= start THEN [found |-> FALSE, v |-> JNull]
        ELSE LET content == Strip(SubSeq(text, start + 1, end - 1))
                 loaded  == Loads(BraceSpan(content))
             IN  IF HasBrace(content) /\ FindLast(content, {"}"}) # 0 /\ loaded.ok
                 THEN [found |-> TRUE, v |-> loaded.v]
                 ELSE [found |-> FALSE, v |-> JNull]

\* lines 291-294: re.search(r'```\s*(.*?)\s*```'): from the first run of three
\* backticks to the next one; after ```json the group begins with the label
PlainFence(text) ==
    LET start == FindFrom(text, 1, FenceKinds)
        end   == IF start = 0 THEN 0 ELSE FindFrom(text, start + 1, FenceKinds)
    IN  IF end = 0 THEN [found |-> FALSE, content |-> <<>>]
        ELSE [found |-> TRUE,
              content |-> (IF text[start].t = "fence_json" THEN <<Word("json")>> ELSE <<>>)
                              \o Strip(SubSeq(text, start + 1, end - 1))]

\* lines 231-298
extract_json(text) ==
    LET tag == JsonTagSearch(text)
        fence == FindFrom(text, 1, {"fence_json"})
        brace_idx == IF fence = 0 THEN 0 ELSE FindFrom(text, fence + 1, {"{"})
        closing == IF brace_idx = 0 THEN 0 ELSE MatchBrace(text, brace_idx, 0, FALSE)
    IN  IF tag[1] # 0 THEN ExtractOut(Loads(Strip(SubSeq(text, tag[1] + 1, tag[2] - 1))))
        ELSE IF closing # 0 THEN ExtractOut(Loads(SubSeq(text, brace_idx, closing)))
        ELSE IF GreedyFence(text).found THEN [status |-> "ok", v |-> GreedyFence(text).v]
        ELSE IF PlainFence(text).found THEN ExtractOut(Loads(PlainFence(text).content))
        ELSE ExtractOut(Loads(text))

-----------------------------------------------------------------------------
(* Evaluation loop: evaluate_test_case, lines 790-973                      *)

None == "None"

Message(kind, tool, tool_result, invitation) ==
    [kind |-> kind, tool |-> tool, tool_result |-> tool_result, invitation |-> invitation]

\* lines 801-835
task_description == Message("task", JNull, ToolOut("none", "", <<>>, <<>>, ""), FALSE)

\* the tool-result message without its closing invitation
ToolResultMessageBare(action_name, tool_result) ==
    Message("tool_result", action_name, tool_result, FALSE)

\* lines 960-963
ToolResultMessage(action_name, tool_result) ==
    Message("tool_result", action_name, tool_result, TRUE)

\* the records evaluate_test_case returns; keys is the set of their keys
NoScore == ScoreRecord(0, 0, 0, 0, Details(FALSE, FALSE, FALSE, FALSE))

FailureRecord(tc, error, steps) ==
    [kind |-> "record", test_case |-> tc.name, error |-> error, steps_taken |-> steps,
     total_score |-> 0, max_score |-> 100, score |-> NoScore,
     keys |-> {"test_case", "error", "steps_taken", "total_score", "max_score"}]

FailureRecordNoStep(tc, error) ==
    [kind |-> "record", test_case |-> tc.name, error |-> error, steps_taken |-> 0,
     total_score |-> 0, max_score |-> 100, score |-> NoScore,
     keys |-> {"test_case", "error", "total_score", "max_score"}]

ScoredRecord(tc, steps, score_result) ==
    [kind |-> "record", test_case |-> tc.name, error |-> "", steps_taken |-> steps,
     total_score |-> score_result.total_score, max_score |-> score_result.max_score,
     score |-> score_result,
     keys |-> {"test_case", "steps_taken", "tier1_structural", "tier2_sections",
               "tier3_accuracy", "tier4_quality", "total_score", "max_score", "details"}]

\* an exception that leaves evaluate_test_case
Raised(tc, exc) ==
    [kind |-> "raised", test_case |-> tc.name, error |-> exc, steps_taken |-> 0,
     total_score |-> 0, max_score |-> 0, score |-> NoScore, keys |-> {}]

NoResult ==
    [kind |-> "none", test_case |-> "", error |-> "", steps_taken |-> 0,
     total_score |-> 0, max_score |-> 0, score |-> NoScore, keys |-> {}]

\* the outcome of one exchange (send_message, lines 751-783, and lines 863-888)
Reply(kind, ctx, parts) == [kind |-> kind, context_id |-> ctx, parts |-> parts]
NoReply == Reply("none", None, <<>>)

-----------------------------------------------------------------------------
(* Inputs of the tool sandbox                                              *)

PathStrings ==
    { <<>>,                                           \* ""
      <<Seg(DOT)>>,                                   \* "."
      <<Seg(N_m)>>,                                   \* "m"
      <<Seg(N_a)>>,                                   \* "a"
      <<Seg(N_a), SL, Seg(N_n)>>,                     \* "a/n"
      <<Seg(N_b)>>,                                   \* "b"
      <<Seg(N_k)>>,                                   \* "k", the link
      <<Seg(N_p)>>,                                   \* "p", missing
      <<Seg(GROUND_TRUTH)>>,                          \* "ground_truth"
      <<Seg(GROUND_TRUTH), SL, Seg(N_f)>>,            \* "ground_truth/f"
      <<Seg(DOTDOT)>>,                                \* ".."
      <<Seg(DOTDOT), SL, Seg(N_q2)>>,                 \* "../q2"
      <<Seg(DOTDOT), SL, Seg(N_q2), SL, Seg(N_s)>>,   \* "../q2/s"
      <<Seg(DOTDOT), SL, Seg(N_q2), SL, Seg(N_p)>>,   \* "../q2/p", missing
      <<Seg(DOTDOT), SL, Seg(DOTDOT), SL, Seg(N_e), SL, Seg(N_p)>>,  \* "../../e/p"
      <<SL, Seg(N_e), SL, Seg(N_p)>>,                 \* "/e/p"
      <<Seg(N_m), NUL>> }                             \* "m\0"

\* the values a decoded `kwargs` can take
ArgValues ==
    { JObj(EmptyMap), JNull, JList, JStr(<<Word("x")>>),
      JObj([k \in {"path"} |-> JNull]),
      JObj([k \in {"path"} |-> JNum(5)]) }
    \cup { JObj([k \in {"path"} |-> JStr(p)]) : p \in PathStrings }

ToolNames ==
    { JStr(<<Word("list_directory")>>), JStr(<<Word("read_file")>>),
      JStr(<<Word("write_file")>>), JStr(<<>>) }

\* the repository roots of the test cases
RepoPaths == { <<N_t, N_q>>, <<N_t, N_q2>> }

-----------------------------------------------------------------------------
(* Inputs of the scoring engine                                            *)

\* how far outside its range a judge's sub-score goes
JudgeOver == 1

ALL_SECTIONS == {"installation", "usage", "example"}

README_GOOD   == <<Prose(101, ALL_SECTIONS)>>
README_100    == <<Prose(100, {"usage"})>>
README_SHORT  == <<Prose(28, {})>>
\* a README in capitals, and one with two installation words and a code block
README_CAPS   == <<ProseUpper(110, {"usage"})>>
README_TWICE  == <<Prose(60, {"installation"}), NL, FENCE, Prose(50, {"installation"}),
                   FENCE>>
\* a README with a fenced json example in it
README_FENCED == <<Prose(120, {"installation"}), NL, FENCE_JSON, NL,
                   LB, Key("name"), QT, Prose(3, {}), QT, RB, NL, FENCE, NL>>
\* the same with nothing but an array between the fences
README_FENCED_LIST == <<Prose(120, {"usage"}), FENCE_JSON, Lit(JList), FENCE>>

METADATA_FULL ==
    JObj([k \in {"@context", "@type", "name"} |->
            IF k = "@context" THEN SCHEMA_ORG
            ELSE IF k = "@type" THEN JStr(<<Word("SoftwareSourceCode")>>)
            ELSE JStr(<<Word("QR Code Generator")>>)])
METADATA_NO_NAME ==
    JObj([k \in {"@context", "@type"} |->
            IF k = "@context" THEN SCHEMA_ORG ELSE JStr(<<Word("SoftwareSourceCode")>>)])

ReadmeValues ==
    { JStr(README_GOOD), JStr(README_100), JStr(README_SHORT), JStr(<<>>),
      JStr(README_CAPS), JStr(README_TWICE),
      JStr(README_FENCED), JStr(README_FENCED_LIST), JNum(5), JList }

MetadataValues == { METADATA_FULL, METADATA_NO_NAME, JObj(EmptyMap), JNull }

Doc(readme, metadata) ==
    JObj([k \in {"readme", "metadata"} |-> IF k = "readme" THEN readme ELSE metadata])

\* the submission texts score_documentation is called with
ScoreTexts ==
    { Dumps(Doc(r, m)) : r \in ReadmeValues, m \in MetadataValues }
    \cup { <<FENCE_JSON, NL>> \o Dumps(Doc(JStr(README_GOOD), METADATA_FULL)) \o <<NL, FENCE>>,
           <<FENCE, NL>> \o Dumps(Doc(JStr(README_GOOD), METADATA_FULL)) \o <<NL, FENCE>>,
           <<FENCE, NL>> \o Dumps(Doc(JStr(README_GOOD), METADATA_FULL)),
           Dumps(JObj([k \in {"readme"} |-> JStr(README_GOOD)])),
           <<Prose(40, {})>>, <<>>, <<LB, RB>>, <<Lit(JList)>>, <<Lit(JNull)>>,
           <<Lit(JNum(0))>> }

Scores(keys, a, b, c) ==
    JObj([k \in {keys[1], keys[2], keys[3]} |->
            IF k = keys[1] THEN a ELSE IF k = keys[2] THEN b ELSE c])

\* what the judge can do when it is asked for the sub-scores named keys
JudgeReplies(keys) ==
    { JudgeReply(TRUE, <<>>),
      JudgeReply(FALSE, <<Prose(30, {})>>),
      JudgeReply(FALSE, <<Lit(JList)>>),
      JudgeReply(FALSE, <<FENCE>>),
      JudgeReply(FALSE, Dumps(JObj(EmptyMap))),
      JudgeReply(FALSE, Dumps(JObj([k \in {keys[1]} |-> JNum(5)]))),
      JudgeReply(FALSE, Dumps(Scores(keys, JNum(7), JStr(<<Word("high")>>), JNum(3)))),
      JudgeReply(FALSE, Dumps(Scores(keys, JNum(7), JNull, JNum(3)))),
      JudgeReply(FALSE, <<FENCE_JSON, NL>>
                          \o Dumps(Scores(keys, JNum(9), JNum(4), JNum(8))) \o <<NL, FENCE>>),
      JudgeReply(FALSE, <<FENCE, NL>>
                          \o Dumps(Scores(keys, JNum(9), JNum(4), JNum(8))) \o <<NL, FENCE>>) }
    \cup { JudgeReply(FALSE, Dumps(Scores(keys, JNum(a), JNum(b), JNum(c)))) :
             <<a, b, c>> \in { <<12, 10, 8>>, <<0, 0, 0>>,
                               <<12 + JudgeOver, 10 + JudgeOver, 8 + JudgeOver>>,
                               <<0 - JudgeOver, 0 - JudgeOver, 0 - JudgeOver>>,
                               <<12 + JudgeOver, 0 - JudgeOver, 8>> } }

\* the judge in the evaluation loop
LoopJudgeReplies(keys) ==
    { JudgeReply(TRUE, <<>>),
      JudgeReply(FALSE, Dumps(Scores(keys, JNum(0), JNum(0), JNum(0)))),
      JudgeReply(FALSE, Dumps(Scores(keys, JNum(12 + JudgeOver), JNum(10), JNum(8)))) }

TestCases ==
    { TestCase("q", <<N_t, N_q>>,
               JObj([k \in {"main_purpose"} |-> JStr(<<Prose(20, {})>>)]),
               JStr(README_GOOD)),
      TestCase("q2", <<N_t, N_q2>>, JNull, JNull) }

-----------------------------------------------------------------------------
(* Inputs of the evaluation loop: what the candidate agent replies         *)

Tagged(text) == <<Open("json"), NL>> \o text \o <<NL, Close("json")>>

ActionText(name, kwargs) ==
    Dumps(JObj([k \in {"name", "kwargs"} |-> IF k = "name" THEN JStr(<<Word(name)>>)
                                              ELSE kwargs]))

PathArg(p) == JObj([k \in {"path"} |-> JStr(p)])

\* replies that decode to a tool call
ToolCallTexts ==
    { Tagged(ActionText("list_directory", PathArg(<<Seg(DOT)>>))),
      Tagged(ActionText("read_file", PathArg(<<Seg(N_m)>>))),
      Tagged(ActionText("read_file", PathArg(<<Seg(N_p)>>))),
      Tagged(ActionText("read_file", PathArg(<<SL, Seg(N_e), SL, Seg(N_p)>>))),
      Tagged(ActionText("write_file", JObj(EmptyMap))),
      <<Prose(12, {})>> \o ActionText("list_directory", PathArg(<<Seg(N_m)>>)),
      Tagged(ActionText("read_file", JObj([k \in {"path"} |-> JNum(5)]))),
      Tagged(Dumps(JObj([k \in {"kwargs"} |-> PathArg(<<Seg(DOT)>>)]))) }

\* replies that decode to a submission
SubmissionTexts ==
    { Tagged(ActionText("respond", Doc(JStr(README_GOOD), METADATA_FULL))),
      Tagged(ActionText("respond", Doc(JStr(README_SHORT), JObj(EmptyMap)))),
      Tagged(ActionText("respond", Doc(JStr(README_FENCED), METADATA_FULL))),
      Tagged(ActionText("respond", Doc(JStr(README_FENCED_LIST), METADATA_FULL))),
      Tagged(ActionText("respond", Doc(JNum(5), METADATA_FULL))),
      Tagged(ActionText("respond", JObj(EmptyMap))),
      Tagged(ActionText("respond", JNull)) }

\* replies that decode to no action
MalformedTexts ==
    { <<Prose(30, {})>>,
      <<Open("b"), Prose(5, {}), Close("b")>>,
      <<Open("json"), Prose(5, {})>>,
      <<Prose(5, {}), LB, Prose(5, {})>>,
      Tagged(<<Prose(9, {})>>),
      Tagged(<<Lit(JList)>>) }

ReplyTexts == ToolCallTexts \cup SubmissionTexts \cup MalformedTexts

ReplyContexts == {None, "c1", "c2"}

Replies ==
    { Reply("message", c, <<text>>) : c \in ReplyContexts, text \in ReplyTexts }
    \cup { Reply("message", c, <<>>) : c \in ReplyContexts }

\* READMEs whose text holds braces, quotes, the closing tag, a whole tag pair
README_BRACES == <<Prose(40, {}), LB, Prose(3, {}), RB, RB, Prose(70, {"usage"})>>
README_QUOTED == <<Prose(20, {}), QT, Prose(5, {}), QT, Prose(90, {"usage"})>>
README_TAG    == <<Prose(30, {}), Close("json"), Prose(80, {"usage"})>>
README_TAGGED == <<Prose(30, {}), Open("json"), LB, RB, Close("json"), Prose(80, {})>>

\* the action payloads given to the parsers, as JSON text
ParsePayloads ==
    { ActionText("list_directory", PathArg(<<Seg(DOT)>>)) }
    \cup { ActionText("respond", Doc(JStr(readme), METADATA_FULL)) :
             readme \in { README_GOOD, README_BRACES, README_QUOTED, README_TWICE,
                          README_FENCED, README_TAG, README_TAGGED } }

\* the ways a payload is put into a reply
Wrappings ==
    { "tagged", "tagged_prose", "fenced_json", "fenced_json_prose", "fenced", "raw",
      "prose", "bad_tag_fenced_json", "bad_tag_raw" }

FencedJson(text) == <<FENCE_JSON, NL>> \o text \o <<NL, FENCE>>

Wrap(wrapping, text) ==
    CASE wrapping = "tagged"              -> Tagged(text)
      [] wrapping = "tagged_prose"        -> <<Prose(12, {}), NL>> \o Tagged(text)
      [] wrapping = "fenced_json"         -> FencedJson(text)
      [] wrapping = "fenced_json_prose"   -> <<Prose(12, {}), NL>> \o FencedJson(text)
      [] wrapping = "fenced"              -> <<FENCE, NL>> \o text \o <<NL, FENCE>>
      [] wrapping = "raw"                 -> text
      [] wrapping = "prose"               -> <<Prose(12, {}), NL>> \o text \o <<NL, Prose(7, {})>>
      [] wrapping = "bad_tag_fenced_json" ->
             Tagged(<<Prose(9, {})>>) \o <<NL>> \o FencedJson(text)
      [] wrapping = "bad_tag_raw"         -> Tagged(<<Prose(9, {})>>) \o <<NL>> \o text

\* the action each reply text decodes to: ParseAction, computed once per text
ActionOfText == [text \in ReplyTexts |-> ParseAction(text)]

-----------------------------------------------------------------------------
(* Evaluation loop: the steps of evaluate_test_case                        *)

\* the loop sending the task description at every step
SendStepStale ==
    /\ pc = "loop"
    /\ step < max_steps
    /\ sent' = Append(sent, [message |-> task_description, context_id |-> context_id])
    /\ pc' = "await"
    /\ UNCHANGED <<test_case, max_steps, step, context_id, next_message, executed,
                   scored, last_reply, result, toolVars, parseVars, scoreVars, runVars, agentVars>>

\* the loop running one step too many: range(max_steps + 1)
SendStepOneMore ==
    /\ pc = "loop"
    /\ step <= max_steps
    /\ sent' = Append(sent, [message |-> next_message, context_id |-> context_id])
    /\ pc' = "await"
    /\ UNCHANGED <<test_case, max_steps, step, context_id, next_message, executed,
                   scored, last_reply, result, toolVars, parseVars, scoreVars, runVars, agentVars>>

\* line 837 and 843: the loop sends the current message
SendStep ==
    /\ pc = "loop"
    /\ step < max_steps
    /\ sent' = Append(sent, [message |-> next_message, context_id |-> context_id])
    /\ pc' = "await"
    /\ UNCHANGED <<test_case, max_steps, step, context_id, next_message, executed,
                   scored, last_reply, result, toolVars, parseVars, scoreVars, runVars, agentVars>>

\* lines 965-973
\* the exhaustion record carrying the last value of the loop variable
MaxStepsReachedLastIndex ==
    /\ pc = "loop"
    /\ step >= max_steps
    /\ result' = FailureRecord(test_case, "Max steps reached without final documentation",
                               IF max_steps > 0 THEN max_steps - 1 ELSE 0)
    /\ pc' = "done"
    /\ UNCHANGED <<test_case, max_steps, step, context_id, next_message, sent, executed,
                   scored, last_reply, toolVars, parseVars, scoreVars, runVars, agentVars>>

MaxStepsReached ==
    /\ pc = "loop"
    /\ step >= max_steps
    /\ result' = FailureRecord(test_case, "Max steps reached without final documentation",
                               max_steps)
    /\ pc' = "done"
    /\ UNCHANGED <<test_case, max_steps, step, context_id, next_message, sent, executed,
                   scored, last_reply, toolVars, parseVars, scoreVars, runVars, agentVars>>

Finish(reply, res) ==
    /\ pc' = "done"
    /\ result' = res
    /\ last_reply' = reply
    /\ UNCHANGED <<test_case, max_steps, step, next_message, sent, toolVars, parseVars, scoreVars,
                   runVars, agentVars>>

\* a timeout recorded with the 0-based loop index instead of step + 1
ReceiveTimeoutStepOff ==
    /\ pc = "await"
    /\ Finish(Reply("timeout", None, <<>>), FailureRecord(test_case, "Timeout", step))
    /\ UNCHANGED <<context_id, executed, scored, agentVars>>

\* lines 844-852
ReceiveTimeout ==
    /\ pc = "await"
    /\ Finish(Reply("timeout", None, <<>>), FailureRecord(test_case, "Timeout", step + 1))
    /\ UNCHANGED <<context_id, executed, scored, agentVars>>

\* lines 853-861
ReceiveError ==
    /\ pc = "await"
    /\ Finish(Reply("error", None, <<>>),
              FailureRecord(test_case, "Communication error", step + 1))
    /\ UNCHANGED <<context_id, executed, scored, agentVars>>

\* lines 863-871
ReceiveUnexpectedResponse ==
    /\ pc = "await"
    /\ Finish(Reply("rpc_error", None, <<>>),
              FailureRecordNoStep(test_case, "Unexpected response from white agent"))
    /\ UNCHANGED <<context_id, executed, scored, agentVars>>

\* lines 873-881
ReceiveUnexpectedResult ==
    /\ pc = "await"
    /\ Finish(Reply("task", None, <<>>),
              FailureRecordNoStep(test_case, "Unexpected result from white agent"))
    /\ UNCHANGED <<context_id, executed, scored, agentVars>>

\* the identifier taken from every reply instead of the first one only
PinContextLatest(reply) == context_id' = reply.context_id

\* lines 883-885
PinContext(reply) ==
    context_id' = IF context_id = None THEN reply.context_id ELSE context_id

\* lines 887-896
ReceiveEmpty(reply) ==
    /\ pc = "await"
    /\ reply.parts = <<>>
    /\ PinContext(reply)
    /\ Finish(reply, FailureRecordNoStep(test_case, "Empty response from white agent"))
    /\ UNCHANGED <<executed, scored, agentVars>>

\* a reply without an action answered by sending the same message again
ReceiveNoActionRetry(reply) ==
    /\ pc = "await"
    /\ reply.parts # <<>>
    /\ ActionOfText[reply.parts[1]].status = "no_action"
    /\ PinContext(reply)
    /\ pc' = "loop"
    /\ last_reply' = reply
    /\ UNCHANGED <<test_case, max_steps, step, next_message, sent, executed, scored,
                   result, toolVars, parseVars, scoreVars, runVars, agentVars>>

\* lines 898-918
ReceiveNoAction(reply) ==
    /\ pc = "await"
    /\ reply.parts # <<>>
    /\ ActionOfText[reply.parts[1]].status = "no_action"
    /\ PinContext(reply)
    /\ Finish(reply, FailureRecordNoStep(test_case, "Could not parse action from response"))
    /\ UNCHANGED <<executed, scored, agentVars>>

\* lines 922-933
ReceiveUndecodable(reply) ==
    /\ pc = "await"
    /\ reply.parts # <<>>
    /\ ActionOfText[reply.parts[1]].status = "decode_error"
    /\ PinContext(reply)
    /\ Finish(reply, FailureRecordNoStep(test_case, "Could not parse action"))
    /\ UNCHANGED <<executed, scored, agentVars>>

\* lines 922-924: .get of a decoded value that is no dict
ReceiveNonObject(reply) ==
    /\ pc = "await"
    /\ reply.parts # <<>>
    /\ ActionOfText[reply.parts[1]].status = "raised"
    /\ PinContext(reply)
    /\ Finish(reply, Raised(test_case, "AttributeError"))
    /\ UNCHANGED <<executed, scored, agentVars>>

\* lines 941-944
FinalResponse(action_kwargs) ==
    Dumps(Doc(Get(action_kwargs, "readme", JStr(<<>>)),
              Get(action_kwargs, "metadata", JObj(EmptyMap))))

\* lines 936-951
ReceiveSubmission(reply) ==
    /\ pc = "await"
    /\ reply.parts # <<>>
    /\ ActionOfText[reply.parts[1]].status = "ok"
    /\ ActionOfText[reply.parts[1]].name = RESPOND_ACTION_NAME
    /\ PinContext(reply)
    /\ UNCHANGED executed
    /\ \E action \in {ActionOfText[reply.parts[1]]} :
           IF action.kwargs.ty # "obj"
           THEN /\ Finish(reply, Raised(test_case, "AttributeError"))
                /\ UNCHANGED scored
           ELSE \E judge3 \in LoopJudgeReplies(TIER3_KEYS),
                   judge4 \in LoopJudgeReplies(TIER4_KEYS) :
                \E final_response \in {FinalResponse(action.kwargs)} :
                \E score_result \in
                      {score_documentation(final_response, test_case, judge3, judge4)} :
                   /\ scored' = Append(scored, [response |-> final_response,
                                                test_case |-> test_case.name])
                   /\ Finish(reply,
                             IF score_result.raised
                             THEN Raised(test_case, "score_documentation")
                             ELSE ScoredRecord(test_case, step + 1, score_result.rec))

\* lines 953-963
ReceiveToolCall(reply) ==
    /\ pc = "await"
    /\ reply.parts # <<>>
    /\ ActionOfText[reply.parts[1]].status = "ok"
    /\ ActionOfText[reply.parts[1]].name # RESPOND_ACTION_NAME
    /\ \E action \in {ActionOfText[reply.parts[1]]} :
       \E tool_result \in {execute_tool(action.name, action.kwargs, test_case.repo_path)} :
           /\ PinContext(reply)
           /\ executed' = Append(executed, [name |-> action.name, args |-> action.kwargs])
           /\ last_reply' = reply
           /\ UNCHANGED <<test_case, max_steps, sent, scored, toolVars, parseVars, scoreVars,
                          runVars, agentVars>>
           /\ IF tool_result.kind = "raised"
              THEN /\ pc' = "done"
                   /\ result' = Raised(test_case, tool_result.msg)
                   /\ UNCHANGED <<step, next_message, agentVars>>
              ELSE /\ pc' = "loop"
                   /\ next_message' = ToolResultMessage(action.name, tool_result)
                   /\ step' = step + 1
                   /\ UNCHANGED result

-----------------------------------------------------------------------------
(* Run aggregator: AEOGreenAgentExecutor.execute, lines 984-1095           *)

\* lines 67-75: the directories under test_repos, sorted; x has no metadata.json
all_test_cases == <<"q", "q2", "x">>

\* lines 78-113: the TestCase of a name, or the ValueError of a missing fixture
load_test_case(name) ==
    IF \E tc \in TestCases : tc.name = name
    THEN [raised |-> FALSE, test_case |-> CHOOSE tc \in TestCases : tc.name = name]
    ELSE [raised |-> TRUE, test_case |-> TestCase(name, <<>>, JNull, JNull)]

\* lines 1018-1023: the cases named by test_ids (0-based), or all of them
RECURSIVE SelectCases(_)
SelectCases(ids) ==
    IF ids = <<>> THEN <<>>
    ELSE (IF Head(ids) < Len(all_test_cases) THEN <<all_test_cases[Head(ids) + 1]>>
          ELSE <<>>) \o SelectCases(Tail(ids))

\* lines 1045-1050: the record of a case that ended in an exception
ExceptionRecord(case_name, exc) ==
    FailureRecordNoStep([name |-> case_name], exc)

\* the threshold taken as exclusive
SuccessStrict(total, possible) ==
    IF possible > 0 THEN total * 100 > 60 * possible ELSE FALSE

\* lines 1056-1060: score_percentage >= 60, where score_percentage is
\* total_score / max_possible * 100 in floating point and 0 without records.
\* For the sums of 0..100 scores over a few cases the quotient and the product
\* are on the same side of 60 as the exact ratio, and 3/5 * 100 gives 60.0.
Success(total, possible) ==
    IF possible > 0 THEN total * 100 >= 60 * possible ELSE FALSE

\* lines 1063-1092: the summary message
Summary(rs, total, possible) ==
    [kind |-> "summary", success |-> Success(total, possible), total_score |-> total,
     max_possible |-> possible, test_cases |-> Len(rs)]

NoCasesMessage ==
    [kind |-> "error", success |-> FALSE, total_score |-> 0, max_possible |-> 0,
     test_cases |-> 0]

\* the identifier the candidate agent gives the conversation of the n-th case
CaseContexts == <<"c1", "c2", "c3", "c4", "c5">>

\* what the candidate agent replies during a run
RunReplyTexts ==
    { Tagged(ActionText("list_directory", PathArg(<<Seg(DOT)>>))),
      Tagged(ActionText("respond", Doc(JStr(README_GOOD), METADATA_FULL))),
      Tagged(ActionText("respond", Doc(JStr(README_FENCED_LIST), METADATA_FULL))),
      Tagged(ActionText("respond", Doc(JStr(README_SHORT), JObj(EmptyMap)))),
      <<Prose(30, {})>>,
      Tagged(<<Lit(JList)>>) }

RunReplies ==
    { Reply("message", c, <<text>>) :
        c \in {None, CaseContexts[case_index + 1]}, text \in RunReplyTexts }

\* test_ids is None (lines 1009-1016) or a list of 0-based indices
NoTestIds == [given |-> FALSE, ids |-> <<>>]
TestIds(ids) == [given |-> TRUE, ids |-> ids]

\* a JSON array of integers
JInts(ids) == [ty |-> "ints", ids |-> ids]

ConfigOut(raised, ids) == [raised |-> raised, test_ids |-> ids]

\* lines 990-1021: the test_ids of the request. json.loads of the test_config
\* tag raises on text that is not JSON, test_config.get raises on a value that
\* is not an object, and the comprehension of line 1021 raises on a test_ids
\* that is not a list; without the tag, TEST_IDS (unset: "0") gives [0].
TestConfig(text) ==
    LET tags == parse_tags(text)
    IN  IF "test_config" \notin DOMAIN tags THEN ConfigOut(FALSE, TestIds(<<0>>))
        ELSE LET loaded == Loads(tags["test_config"])
             IN  IF ~loaded.ok \/ loaded.v.ty # "obj" THEN ConfigOut(TRUE, NoTestIds)
                 ELSE LET ids == Get(loaded.v, "test_ids", JNull)
                      IN  CASE ids.ty = "null" -> ConfigOut(FALSE, NoTestIds)
                            [] ids.ty = "ints" -> ConfigOut(FALSE, TestIds(ids.ids))
                            [] OTHER -> ConfigOut(TRUE, NoTestIds)

\* the same, with a test_config that cannot be used read as one that names no test
TestConfigLenient(text) ==
    IF TestConfig(text).raised THEN ConfigOut(FALSE, TestIds(<<>>)) ELSE TestConfig(text)

\* lines 986-1018: the request is read; an exception raised here leaves execute
ParseConfig ==
    /\ runPc = "start"
    /\ LET config == TestConfig(user_input)
       IN  /\ test_ids' = config.test_ids
           /\ runPc' = IF config.raised THEN "raised" ELSE "select"
    /\ UNCHANGED <<user_input, selected_cases, case_index, results, total_score,
                   max_possible, enqueued, toolVars, parseVars, scoreVars, loopVars, agentVars>>

\* lines 1018-1031: the selection, and the error message when it is empty
SelectTestCases ==
    /\ runPc = "select"
    /\ selected_cases' = (IF test_ids.given THEN SelectCases(test_ids.ids)
                          ELSE all_test_cases)
    /\ IF selected_cases' = <<>>
       THEN /\ enqueued' = Append(enqueued, NoCasesMessage)
            /\ runPc' = "end"
       ELSE /\ runPc' = "next"
            /\ UNCHANGED enqueued
    /\ UNCHANGED <<user_input, test_ids, case_index, results, total_score, max_possible,
                   toolVars, parseVars, scoreVars, loopVars, agentVars>>

\* the locals of a fresh evaluate_test_case call (lines 801-835)
StartEvaluation(tc) ==
    /\ pc' = "loop"
    /\ test_case' = tc
    /\ max_steps' = RunSteps
    /\ step' = 0
    /\ next_message' = task_description
    /\ sent' = <<>>
    /\ executed' = <<>>
    /\ scored' = <<>>
    /\ last_reply' = NoReply
    /\ result' = NoResult

\* the call starting with the identifier of the conversation of the case before
LoadCaseKeepContext ==
    /\ runPc = "next"
    /\ case_index < Len(selected_cases)
    /\ ~load_test_case(selected_cases[case_index + 1]).raised
    /\ StartEvaluation(load_test_case(selected_cases[case_index + 1]).test_case)
    /\ context_id' = (IF case_index > 0 THEN CaseContexts[case_index] ELSE None)
    /\ runPc' = "case"
    /\ UNCHANGED <<user_input, test_ids, selected_cases, case_index, results, total_score,
                   max_possible, enqueued, toolVars, parseVars, scoreVars, agentVars>>

\* the next case started as soon as the current one has an outcome, before the
\* outcome is recorded
LoadCaseEarly ==
    \/ /\ runPc = "next"
       /\ case_index < Len(selected_cases)
       /\ ~load_test_case(selected_cases[case_index + 1]).raised
       /\ StartEvaluation(load_test_case(selected_cases[case_index + 1]).test_case)
       /\ context_id' = None
       /\ runPc' = "case"
       /\ UNCHANGED <<user_input, test_ids, selected_cases, case_index, results, total_score,
                      max_possible, enqueued, toolVars, parseVars, scoreVars, agentVars>>
    \/ /\ runPc = "case"
       /\ pc = "done"
       /\ case_index + 1 < Len(selected_cases)
       /\ ~load_test_case(selected_cases[case_index + 2]).raised
       /\ StartEvaluation(load_test_case(selected_cases[case_index + 2]).test_case)
       /\ context_id' = None
       /\ case_index' = case_index + 1
       /\ UNCHANGED <<runPc, user_input, test_ids, selected_cases, results, total_score,
                      max_possible, enqueued, toolVars, parseVars, scoreVars, agentVars>>

\* lines 1031-1036: the for loop takes the next name, loads its fixture and
\* calls evaluate_test_case
LoadCase ==
    /\ runPc = "next"
    /\ case_index < Len(selected_cases)
    /\ ~load_test_case(selected_cases[case_index + 1]).raised
    /\ StartEvaluation(load_test_case(selected_cases[case_index + 1]).test_case)
    /\ context_id' = None
    /\ runPc' = "case"
    /\ UNCHANGED <<user_input, test_ids, selected_cases, case_index, results, total_score,
                   max_possible, enqueued, toolVars, parseVars, scoreVars, agentVars>>

\* lines 1035 and 1045-1052: load_test_case raises, the except clause records it
LoadCaseFails ==
    /\ runPc = "next"
    /\ case_index < Len(selected_cases)
    /\ load_test_case(selected_cases[case_index + 1]).raised
    /\ results' = Append(results, ExceptionRecord(selected_cases[case_index + 1],
                                                  "ValueError"))
    /\ max_possible' = max_possible + 100
    /\ case_index' = case_index + 1
    /\ UNCHANGED <<runPc, user_input, test_ids, selected_cases, total_score, enqueued,
                   toolVars, parseVars, scoreVars, loopVars, agentVars>>

\* evaluate_test_case has returned or raised: its locals are gone
EndEvaluation ==
    /\ pc' = "idle"
    /\ test_case' = TestCase("", <<>>, JNull, JNull)
    /\ max_steps' = 0
    /\ step' = 0
    /\ context_id' = None
    /\ next_message' = task_description
    /\ sent' = <<>>
    /\ executed' = <<>>
    /\ scored' = <<>>
    /\ last_reply' = NoReply
    /\ result' = NoResult

\* an exception of evaluate_test_case ending the whole run without a record
RecordResultAbort ==
    /\ runPc = "case"
    /\ pc = "done"
    /\ EndEvaluation
    /\ IF result.kind = "raised"
       THEN /\ runPc' = "end"
            /\ UNCHANGED <<results, total_score, max_possible, case_index, agentVars>>
       ELSE /\ results' = Append(results, result)
            /\ total_score' = total_score + result.total_score
            /\ max_possible' = max_possible + result.max_score
            /\ case_index' = case_index + 1
            /\ runPc' = "next"
    /\ UNCHANGED <<user_input, test_ids, selected_cases, enqueued, toolVars, parseVars, scoreVars,
                   agentVars>>

\* the except clause without its max_possible += 100
RecordResultNoMax ==
    /\ runPc = "case"
    /\ pc = "done"
    /\ EndEvaluation
    /\ IF result.kind = "raised"
       THEN /\ results' = Append(results, ExceptionRecord(test_case.name, result.error))
            /\ UNCHANGED <<total_score, max_possible, agentVars>>
       ELSE /\ results' = Append(results, result)
            /\ total_score' = total_score + result.total_score
            /\ max_possible' = max_possible + result.max_score
    /\ case_index' = case_index + 1
    /\ runPc' = "next"
    /\ UNCHANGED <<user_input, test_ids, selected_cases, enqueued, toolVars, parseVars, scoreVars,
                   agentVars>>

\* lines 1036-1052: evaluate_test_case returned a record, or raised
RecordResult ==
    /\ runPc = "case"
    /\ pc = "done"
    /\ EndEvaluation
    /\ IF result.kind = "raised"
       THEN /\ results' = Append(results, ExceptionRecord(test_case.name, result.error))
            /\ max_possible' = max_possible + 100
            /\ UNCHANGED total_score
       ELSE /\ results' = Append(results, result)
            /\ total_score' = total_score + result.total_score
            /\ max_possible' = max_possible + result.max_score
    /\ case_index' = case_index + 1
    /\ runPc' = "next"
    /\ UNCHANGED <<user_input, test_ids, selected_cases, enqueued, toolVars, parseVars, scoreVars,
                   agentVars>>

\* lines 1054-1092: after the last case the summary is enqueued
Summarize ==
    /\ runPc = "next"
    /\ case_index = Len(selected_cases)
    /\ enqueued' = Append(enqueued, Summary(results, total_score, max_possible))
    /\ runPc' = "end"
    /\ UNCHANGED <<user_input, test_ids, selected_cases, case_index, results, total_score,
                   max_possible, toolVars, parseVars, scoreVars, loopVars, agentVars>>

-----------------------------------------------------------------------------
(* The white candidate agent: AEOWhiteAgentExecutor, src/white/agent.py    *)
(* 71-108.  A conversation's history is a sequence of messages.            *)

\* the conversation identifiers the orchestrator uses
ConversationIds == {"c1", "c2"}

ChatMessage(role, content) == [role |-> role, content |-> content]

\* line 80-82: the history a conversation starts with
SYSTEM_PROMPT == ChatMessage("system", "SYSTEM_PROMPT")

\* what the orchestrator sends: the task description or a tool result
UserInputs == {"task", "tool result"}

\* completion() returns a message, or raises (and a message without content
\* makes the slice of line 97 raise)
Completion(raised, content) == [raised |-> raised, content |-> content]
Completions == {Completion(FALSE, "action"), Completion(TRUE, "")}

\* m with key k bound to v, k added to the keys if it is new
Store(m, k, v) == [c \in DOMAIN m \cup {k} |-> IF c = k THEN v ELSE m[c]]

\* lines 78-85: the history of the conversation, begun if it is new, with the
\* user's message appended
WithUserMessage(histories, ctx_id, text) ==
    LET messages == IF ctx_id \in DOMAIN histories THEN histories[ctx_id]
                    ELSE <<SYSTEM_PROMPT>>
    IN  Store(histories, ctx_id, Append(messages, ChatMessage("user", text)))

\* one turn (a call of execute) as recorded by the model
WhiteTurn(ctx_id, replied) == [ctx_id |-> ctx_id, replied |-> replied]

\* the user's message appended to the history of every conversation
WhiteExecuteShared(ctx_id, text, response) ==
    /\ Len(whiteLog) < WhiteTurns
    /\ LET begun == WithUserMessage(ctx_id_to_messages, ctx_id, text)
           all   == [c \in DOMAIN begun |->
                        IF c = ctx_id THEN begun[c]
                        ELSE Append(begun[c], ChatMessage("user", text))]
       IN  ctx_id_to_messages' =
               IF response.raised THEN all
               ELSE [all EXCEPT ![ctx_id] =
                        Append(@, ChatMessage("assistant", response.content))]
    /\ whiteLog' = Append(whiteLog, WhiteTurn(ctx_id, ~response.raised))
    /\ UNCHANGED <<white2Vars, toolVars, parseVars, scoreVars, loopVars, runVars>>

\* lines 74-108: execute.  The user's message is in the history before the
\* model is called (line 85); a call that raises leaves it there and nothing
\* is enqueued; otherwise the answer is appended (line 100) and enqueued.
WhiteExecute(ctx_id, text, response) ==
    /\ Len(whiteLog) < WhiteTurns
    /\ LET heard == WithUserMessage(ctx_id_to_messages, ctx_id, text)
       IN  ctx_id_to_messages' =
               IF response.raised THEN heard
               ELSE [heard EXCEPT ![ctx_id] =
                        Append(@, ChatMessage("assistant", response.content))]
    /\ whiteLog' = Append(whiteLog, WhiteTurn(ctx_id, ~response.raised))
    /\ UNCHANGED <<white2Vars, toolVars, parseVars, scoreVars, loopVars, runVars>>

-----------------------------------------------------------------------------
(* The white2 candidate agent: src/white2/agent.py 308-695.  A path is a   *)
(* sequence of names: "." is <<".">>, "" is <<"">>, "d/b.py" is            *)
(* <<"d", "b.py">>.  The contents of files are left out.                   *)

CUR_DIR    == <<".">>
EMPTY_PATH == <<"">>

\* the actions the agent replies with; NoAction is None
NoAction            == [name |-> "none", path |-> <<>>, readme |-> ""]
ListDirectory(path) == [name |-> "list_directory", path |-> path, readme |-> ""]
ReadFile(path)      == [name |-> "read_file", path |-> path, readme |-> ""]
Respond(readme)     == [name |-> "respond", path |-> <<>>, readme |-> readme]

\* lines 559-570: the AgentState of a new conversation
InitialState ==
    [phase |-> "planning", project_name |-> "p", files_discovered |-> <<>>,
     directories_discovered |-> <<>>, directories_explored |-> <<>>,
     files_read |-> {}, exploration_plan |-> <<>>, messages |-> 0,
     next_action |-> NoAction]

\* an entry of a listing: its name and how the heuristic of lines 616-626
\* reads it: "slash" ends with /, "bare" has no dot and no leading underscore
Item(name, kind) == [name |-> name, kind |-> kind]

\* lines 529-547: what _parse_tool_result finds in the message
ToolResult(tool_name, error, items) ==
    [tool_name |-> tool_name, error |-> error, items |-> items]

AddNew(list, x) == IF x \in Range(list) THEN list ELSE Append(list, x)

\* list.remove(x)
RECURSIVE Remove(_, _)
Remove(list, x) ==
    IF list = <<>> THEN <<>>
    ELSE IF Head(list) = x THEN Tail(list)
    ELSE <<Head(list)>> \o Remove(Tail(list), x)

\* lines 608-626: the entries of a listing sorted into directories and files
RECURSIVE Discover(_, _, _)
Discover(state, listed_dir, items) ==
    IF items = <<>> THEN state
    ELSE LET item == Head(items)
             full_path == IF listed_dir = CUR_DIR THEN <<item.name>>
                          ELSE listed_dir \o <<item.name>>
         IN  Discover(IF item.kind \in {"slash", "bare"}
                      THEN [state EXCEPT !.directories_discovered = AddNew(@, full_path)]
                      ELSE [state EXCEPT !.files_discovered = AddNew(@, full_path)],
                      listed_dir, Tail(items))

\* lines 586-631: a list_directory result
ListingUpdate(state, tool_result) ==
    LET listed_dir == IF state.next_action.name = "list_directory"
                      THEN state.next_action.path ELSE CUR_DIR
        explored == [state EXCEPT !.directories_explored = AddNew(@, listed_dir)]
    IN  IF tool_result.error
        THEN [explored EXCEPT
                !.directories_discovered = Remove(@, listed_dir),
                !.files_discovered = IF listed_dir # CUR_DIR THEN AddNew(@, listed_dir)
                                     ELSE @]
        ELSE Discover(explored, listed_dir, tool_result.items)

\* lines 633-641: a read_file result; the path is that of the action replied
\* last (the result itself names none), and an empty path stores nothing
FileUpdate(state) ==
    IF state.next_action.name = "read_file" /\ state.next_action.path # EMPTY_PATH
    THEN [state EXCEPT !.files_read = @ \cup {state.next_action.path}]
    ELSE state

\* lines 573-641: the state after the message was appended and its tool result read
Heard(state, tool_result) ==
    LET appended == [state EXCEPT !.messages = @ + 1]
    IN  CASE tool_result.tool_name = "list_directory" -> ListingUpdate(appended, tool_result)
          [] tool_result.tool_name = "read_file" -> FileUpdate(appended)
          [] OTHER -> appended

\* what a node gives: the state, or an exception
NodeOut(raised, state) == [raised |-> raised, state |-> state]

\* the answers of the language model, as extract_json reads them
PlannerReply(kind, directory, plan) == [kind |-> kind, directory |-> directory, plan |-> plan]

IsPython(path) == path[Len(path)] \in {"a.py", "b.py"}

\* line 369: the first five discovered files that end in .py
RECURSIVE PythonFiles(_)
PythonFiles(files) ==
    IF files = <<>> THEN <<>>
    ELSE (IF IsPython(Head(files)) THEN <<Head(files)>> ELSE <<>>) \o PythonFiles(Tail(files))

DefaultPlan(state) ==
    LET python == PythonFiles(state.files_discovered)
    IN  SubSeq(python, 1, IF Len(python) < 5 THEN Len(python) ELSE 5)

\* lines 345-362: the plan is taken
TakePlan(state, plan) ==
    IF plan # <<>>
    THEN [state EXCEPT !.exploration_plan = plan, !.phase = "exploring",
                       !.next_action = ReadFile(plan[1])]
    ELSE [state EXCEPT !.exploration_plan = plan, !.phase = "generating",
                       !.next_action = NoAction]

\* lines 308-378: planner_node.  call_llm is outside the try (line 328); the
\* except clause of lines 366-376 sets next_action only for a plan with files
planner_node(state, reply) ==
    CASE reply.kind = "raise" -> NodeOut(TRUE, state)
      [] reply.kind = "explore" /\ reply.directory # EMPTY_PATH ->
            NodeOut(FALSE, [state EXCEPT !.next_action = ListDirectory(reply.directory)])
      [] reply.kind = "explore" /\ reply.directory = EMPTY_PATH ->
            NodeOut(FALSE, TakePlan(state, <<>>))
      [] reply.kind = "plan" -> NodeOut(FALSE, TakePlan(state, reply.plan))
      [] OTHER ->
            LET plan == DefaultPlan(state)
            IN  NodeOut(FALSE,
                    IF plan # <<>>
                    THEN [state EXCEPT !.exploration_plan = plan, !.phase = "exploring",
                                       !.next_action = ReadFile(plan[1])]
                    ELSE [state EXCEPT !.exploration_plan = plan, !.phase = "exploring"])

\* line 386: the files of the plan that are not read yet
RECURSIVE Unread(_, _)
Unread(plan, files_read) ==
    IF plan = <<>> THEN <<>>
    ELSE (IF Head(plan) \in files_read THEN <<>> ELSE <<Head(plan)>>)
            \o Unread(Tail(plan), files_read)

\* explorer_node handing a finished plan back to the planner
explorer_nodeReplan(state) ==
    LET unread == Unread(state.exploration_plan, state.files_read)
    IN  NodeOut(FALSE,
            IF unread # <<>>
            THEN [state EXCEPT !.next_action = ReadFile(unread[1])]
            ELSE [state EXCEPT !.phase = "planning", !.next_action = NoAction])

\* lines 381-406: explorer_node
explorer_node(state) ==
    LET unread == Unread(state.exploration_plan, state.files_read)
    IN  NodeOut(FALSE,
            IF unread # <<>>
            THEN [state EXCEPT !.next_action = ReadFile(unread[1])]
            ELSE [state EXCEPT !.phase = "generating", !.next_action = NoAction])

\* lines 409-466: generator_node.  call_llm is outside the try (line 430)
generator_node(state, reply) ==
    CASE reply = "raise" -> NodeOut(TRUE, state)
      [] reply = "documentation" ->
            NodeOut(FALSE, [state EXCEPT !.next_action = Respond("generated"),
                                         !.phase = "done"])
      [] OTHER ->
            NodeOut(FALSE, [state EXCEPT !.next_action = Respond("minimal"),
                                         !.phase = "done"])

\* lines 473-501: the compiled graph, one node per invocation
Invoke(state, planner_reply, generator_reply) ==
    CASE state.phase = "planning" -> planner_node(state, planner_reply)
      [] state.phase = "exploring" -> explorer_node(state)
      [] state.phase = "generating" -> generator_node(state, generator_reply)
      [] OTHER -> NodeOut(FALSE, state)

\* lines 648-660: the graph is run, and run again for the generator
RunGraph(state, planner_reply, generator_reply) ==
    LET first == Invoke(state, planner_reply, generator_reply)
    IN  IF first.raised THEN first
        ELSE IF first.state.phase = "generating" /\ first.state.next_action = NoAction
        THEN Invoke(first.state, planner_reply, generator_reply)
        ELSE first

\* one turn as recorded by the model: the conversation, its phase at the
\* start, the tool whose result came, the action replied (NoAction when
\* execute raised) and whether it is the fallback of lines 679-693
White2Turn(ctx_id, phase, tool_name, action, fallback) ==
    [ctx_id |-> ctx_id, phase |-> phase, tool_name |-> tool_name, action |-> action,
     fallback |-> fallback]

\* lines 556-581: the first message of a conversation
White2FirstTurn(ctx_id) ==
    /\ Len(white2Log) < White2Turns
    /\ ctx_id \notin DOMAIN ctx_id_to_state
    /\ ctx_id_to_state' = Store(ctx_id_to_state, ctx_id, InitialState)
    /\ white2Log' = Append(white2Log,
                           White2Turn(ctx_id, "new", "none", ListDirectory(CUR_DIR), FALSE))
    /\ UNCHANGED <<whiteVars, toolVars, parseVars, scoreVars, loopVars, runVars>>

\* lines 583-700: a later message.  The tool result is written into the
\* stored state before the graph runs, so it stays when the graph raises.
White2NextTurn(ctx_id, tool_result, planner_reply, generator_reply) ==
    /\ Len(white2Log) < White2Turns
    /\ ctx_id \in DOMAIN ctx_id_to_state
    /\ LET state == ctx_id_to_state[ctx_id]
           heard == Heard(state, tool_result)
           out   == RunGraph(heard, planner_reply, generator_reply)
           result_state == out.state
           action == result_state.next_action
       IN  IF out.raised
           THEN /\ ctx_id_to_state' = [ctx_id_to_state EXCEPT ![ctx_id] = heard]
                /\ white2Log' = Append(white2Log,
                       White2Turn(ctx_id, state.phase, tool_result.tool_name, NoAction, FALSE))
           ELSE /\ ctx_id_to_state' = [ctx_id_to_state EXCEPT
                       ![ctx_id] = [result_state EXCEPT !.messages = @ + 1]]
                /\ white2Log' = Append(white2Log,
                       IF action # NoAction
                       THEN White2Turn(ctx_id, state.phase, tool_result.tool_name, action, FALSE)
                       ELSE White2Turn(ctx_id, state.phase, tool_result.tool_name,
                                       Respond("minimal"), TRUE))
    /\ UNCHANGED <<whiteVars, toolVars, parseVars, scoreVars, loopVars, runVars>>

-----------------------------------------------------------------------------
(* Specifications                                                          *)

ToolIdle  == toolLog = <<>>
ParseIdle == parseIn = <<>> /\ parseOut = <<>>

\* no conversation has begun with either candidate agent
NoConversations == [c \in {} |-> <<>>]
AgentsIdle ==
    /\ ctx_id_to_messages = NoConversations
    /\ whiteLog = <<>>
    /\ ctx_id_to_state = NoConversations
    /\ white2Log = <<>>
ScoreIdle == scoreIn = <<>> /\ scoreOut = <<>>
LoopIdle  ==
    /\ pc = "idle"
    /\ test_case = TestCase("", <<>>, JNull, JNull)
    /\ max_steps = 0
    /\ step = 0
    /\ context_id = None
    /\ next_message = task_description
    /\ sent = <<>>
    /\ executed = <<>>
    /\ scored = <<>>
    /\ last_reply = NoReply
    /\ result = NoResult

RunIdle ==
    /\ runPc = "idle"
    /\ user_input = <<>>
    /\ test_ids = NoTestIds
    /\ selected_cases = <<>>
    /\ case_index = 0
    /\ results = <<>>
    /\ total_score = 0
    /\ max_possible = 0
    /\ enqueued = <<>>

\* Spec: one run of evaluate_test_case
Init ==
    /\ pc = "loop"
    /\ test_case \in TestCases
    /\ max_steps \in 0..MaxSteps
    /\ step = 0
    /\ context_id = None
    /\ next_message = task_description
    /\ sent = <<>>
    /\ executed = <<>>
    /\ scored = <<>>
    /\ last_reply = NoReply
    /\ result = NoResult
    /\ ToolIdle
    /\ ScoreIdle
    /\ RunIdle
    /\ ParseIdle
    /\ AgentsIdle

Next ==
    \/ SendStep
    \/ MaxStepsReached
    \/ ReceiveTimeout
    \/ ReceiveError
    \/ ReceiveUnexpectedResponse
    \/ ReceiveUnexpectedResult
    \/ \E reply \in Replies : ReceiveEmpty(reply)
    \/ \E reply \in Replies : ReceiveNoAction(reply)
    \/ \E reply \in Replies : ReceiveUndecodable(reply)
    \/ \E reply \in Replies : ReceiveNonObject(reply)
    \/ \E reply \in Replies : ReceiveSubmission(reply)
    \/ \E reply \in Replies : ReceiveToolCall(reply)

Spec == Init /\ [][Next]_vars

\* SpecRun: one request handled by execute
\* the requests: all cases, or the first indices of a list that names cases
\* twice, out of order, and an index past the end (3)
RunSelections == { <<0, 1, 3, 2>>, <<2, 0, 2, 0>>, <<1, 1, 3, 3>>, <<3, 3, 0, 1>> }

RunTestIds ==
    {NoTestIds} \cup
    { TestIds(SubSeq(ids, 1, n)) :
        ids \in RunSelections, n \in { m \in 0..MaxCases : m <= 4 } }

\* the request text: the address of the candidate agent and a test_config
Request(config) ==
    <<Prose(20, {}), Open("white_agent_url"), Word("http://localhost:9002"),
      Close("white_agent_url"), NL, Open("test_config")>> \o config
        \o <<Close("test_config")>>

ConfigText(ids) ==
    <<LB, Key("test_ids"), Lit(IF ids.given THEN JInts(ids.ids) ELSE JNull), RB>>

\* requests with a usable test_config, with none, with one that is not JSON,
\* one that is not an object, and one whose test_ids is a number
RunInputs ==
    { Request(ConfigText(ids)) : ids \in RunTestIds } \cup
    { <<Prose(20, {})>>,
      Request(<<LB, RB>>),
      Request(<<Prose(5, {})>>),
      Request(<<Lit(JInts(<<0>>))>>),
      Request(<<LB, Key("test_ids"), Lit(JNum(0)), RB>>) }

RunInit ==
    /\ runPc = "start"
    /\ user_input \in RunInputs
    /\ test_ids = NoTestIds
    /\ selected_cases = <<>>
    /\ case_index = 0
    /\ results = <<>>
    /\ total_score = 0
    /\ max_possible = 0
    /\ enqueued = <<>>
    /\ ToolIdle
    /\ ScoreIdle
    /\ LoopIdle
    /\ ParseIdle
    /\ AgentsIdle

RunNext ==
    \/ ParseConfig
    \/ SelectTestCases
    \/ LoadCase
    \/ LoadCaseFails
    \/ RecordResult
    \/ Summarize
    \/ runPc = "case" /\ SendStep
    \/ runPc = "case" /\ MaxStepsReached
    \/ runPc = "case" /\ ReceiveTimeout
    \/ runPc = "case" /\ ReceiveError
    \/ \E reply \in RunReplies : runPc = "case" /\ ReceiveNoAction(reply)
    \/ \E reply \in RunReplies : runPc = "case" /\ ReceiveNonObject(reply)
    \/ \E reply \in RunReplies : runPc = "case" /\ ReceiveSubmission(reply)
    \/ \E reply \in RunReplies : runPc = "case" /\ ReceiveToolCall(reply)

SpecRun == RunInit /\ [][RunNext]_vars

\* SpecRunLive: the same, where every exchange with the candidate agent and every
\* judge call returns or fails, and the coroutine is run to its end
SpecRunLive == RunInit /\ [][RunNext]_vars /\ WF_vars(RunNext)

\* SpecParse: the parsers called directly on a wrapped payload
ParseInit ==
    /\ parseIn \in { <<[payload |-> payload, wrapping |-> wrapping,
                        text |-> Wrap(wrapping, payload)]>> :
                       payload \in ParsePayloads, wrapping \in Wrappings }
    /\ parseOut = <<>>
    /\ ToolIdle
    /\ ScoreIdle
    /\ LoopIdle
    /\ RunIdle
    /\ AgentsIdle

CallParse ==
    /\ parseOut = <<>>
    /\ parseOut' = <<[action |-> ParseAction(parseIn[1].text),
                      extracted |-> extract_json(parseIn[1].text)]>>
    /\ UNCHANGED <<parseIn, toolVars, scoreVars, loopVars, runVars, agentVars>>

ParseNext == CallParse

SpecParse == ParseInit /\ [][ParseNext]_vars

\* SpecAgents: turns given to a candidate agent, on two conversations
\* the tool results: a failed listing, a listing of a file, a directory and a
\* name without extension, the contents of a file, a message that names no tool
ToolResults ==
    { ToolResult("list_directory", TRUE, <<>>),
      ToolResult("list_directory", FALSE,
                 <<Item("a.py", "file"), Item("d", "slash"), Item("m", "bare")>>),
      ToolResult("read_file", FALSE, <<>>),
      ToolResult("unknown", FALSE, <<>>) }

\* the planner's answers: the call fails, the answer cannot be read, a
\* directory to explore, and plans: empty, with a file twice, with an empty path
PlannerReplies ==
    { PlannerReply("raise", EMPTY_PATH, <<>>),
      PlannerReply("unparseable", EMPTY_PATH, <<>>),
      PlannerReply("explore", <<"d">>, <<>>),
      PlannerReply("plan", EMPTY_PATH, <<>>),
      PlannerReply("plan", EMPTY_PATH, <<<<"a.py">>, <<"a.py">>>>),
      PlannerReply("plan", EMPTY_PATH, <<<<"a.py">>, <<"d", "b.py">>>>),
      PlannerReply("plan", EMPTY_PATH, <<EMPTY_PATH>>) }

GeneratorReplies == {"raise", "unparseable", "documentation"}

AgentsInit ==
    /\ AgentsIdle
    /\ ToolIdle
    /\ ScoreIdle
    /\ LoopIdle
    /\ RunIdle
    /\ ParseIdle

\* one process runs one of the two agents
AgentsNext ==
    \/ \E ctx_id \in ConversationIds, text \in UserInputs, response \in Completions :
          white2Log = <<>> /\ WhiteExecute(ctx_id, text, response)
    \/ \E ctx_id \in ConversationIds : whiteLog = <<>> /\ White2FirstTurn(ctx_id)
    \/ \E ctx_id \in ConversationIds, tool_result \in ToolResults,
          planner_reply \in PlannerReplies, generator_reply \in GeneratorReplies :
          White2NextTurn(ctx_id, tool_result, planner_reply, generator_reply)

SpecAgents == AgentsInit /\ [][AgentsNext]_vars

\* SpecTool: the tool sandbox called directly
ToolInit == ToolIdle /\ ScoreIdle /\ LoopIdle /\ RunIdle /\ ParseIdle /\ AgentsIdle

CallTool ==
    /\ Len(toolLog) < MaxToolCalls
    /\ \E name \in ToolNames, args \in ArgValues, root \in RepoPaths :
         toolLog' = Append(toolLog,
                           [name |-> name, args |-> args, root |-> root,
                            out |-> execute_tool(name, args, root)])
    /\ UNCHANGED <<scoreVars, loopVars, runVars, parseVars, agentVars>>

ToolNext == CallTool

SpecTool == ToolInit /\ [][ToolNext]_vars

\* SpecList: list_directory called again and again with the same arguments
ListInit == ToolIdle /\ ScoreIdle /\ LoopIdle /\ RunIdle /\ ParseIdle /\ AgentsIdle

CallListFirst ==
    /\ toolLog = <<>>
    /\ \E args \in ArgValues, root \in RepoPaths :
         toolLog' = <<[name |-> JStr(<<Word("list_directory")>>), args |-> args, root |-> root,
                      out |-> execute_tool(JStr(<<Word("list_directory")>>), args, root)]>>
    /\ UNCHANGED <<scoreVars, loopVars, runVars, parseVars, agentVars>>

CallListAgain ==
    /\ toolLog # <<>>
    /\ Len(toolLog) < MaxListCalls
    /\ toolLog' = Append(toolLog,
                         [name |-> toolLog[1].name, args |-> toolLog[1].args,
                          root |-> toolLog[1].root,
                          out |-> execute_tool(toolLog[1].name, toolLog[1].args,
                                               toolLog[1].root)])
    /\ UNCHANGED <<scoreVars, loopVars, runVars, parseVars, agentVars>>

ListNext == CallListFirst \/ CallListAgain

SpecList == ListInit /\ [][ListNext]_vars

\* SpecScore: the scoring engine called directly
ScoreInit ==
    /\ scoreIn \in { <<[response |-> text, test_case |-> tc, judge3 |-> j3, judge4 |-> j4]>> :
                       text \in ScoreTexts, tc \in TestCases,
                       j3 \in JudgeReplies(TIER3_KEYS), j4 \in JudgeReplies(TIER4_KEYS) }
    /\ scoreOut = <<>>
    /\ ToolIdle
    /\ LoopIdle
    /\ RunIdle
    /\ ParseIdle
    /\ AgentsIdle

CallScore ==
    /\ scoreOut = <<>>
    /\ scoreOut' = <<score_documentation(scoreIn[1].response, scoreIn[1].test_case,
                                         scoreIn[1].judge3, scoreIn[1].judge4)>>
    /\ UNCHANGED <<scoreIn, toolVars, loopVars, runVars, parseVars, agentVars>>

ScoreNext == CallScore

SpecScore == ScoreInit /\ [][ScoreNext]_vars

-----------------------------------------------------------------------------
(* Properties                                                              *)

\* the last exchange returned a message with a text part
Answered == last_reply.kind = "message" /\ last_reply.parts # <<>>

\* line 899: white_text of the last reply; lines 903-924: what it decodes to
LastText   == last_reply.parts[1]
LastAction == ActionOfText[LastText]

\* a failure record: scored 0 of 100
ZeroScored(r) == r.kind = "record" /\ r.total_score = 0 /\ r.max_score = 100

\* C1: every record score_documentation returns has total_score equal to the
\* sum of its four tiers, tier 1 in 0..15, tier 2 in 0..25, tier 3 in 0..30,
\* tier 4 in 0..30 and total_score in 0..100, whatever the submission text,
\* the test case and the judge do.
C1_ScoreRecordInvariant ==
    \A i \in 1..Len(scoreOut) :
        ~scoreOut[i].raised =>
            LET r == scoreOut[i].rec
            IN  /\ r.total_score = r.tier1_structural + r.tier2_sections
                                     + r.tier3_accuracy + r.tier4_quality
                /\ r.tier1_structural \in 0..15
                /\ r.tier2_sections \in 0..25
                /\ r.tier3_accuracy \in 0..30
                /\ r.tier4_quality \in 0..30
                /\ r.total_score \in 0..100

\* a record scored from a judge reply whose sub-scores are above their maxima
C1_Witness ==
    /\ scoreOut # <<>>
    /\ ~scoreOut[1].raised
    /\ scoreIn[1].judge3 =
          JudgeReply(FALSE, Dumps(Scores(TIER3_KEYS, JNum(12 + JudgeOver),
                                         JNum(10 + JudgeOver), JNum(8 + JudgeOver))))
    /\ scoreOut[1].rec.tier3_accuracy = 30
    /\ scoreOut[1].rec.total_score > 30

\* C2: evaluate_test_case ends with a result record, after at most max_steps
\* messages, whatever the candidate agent replies.
C2_EndsWithRecord ==
    /\ Len(sent) <= max_steps
    /\ pc = "done" => result.kind = "record"

\* a call argument map as the Action of the data model has it: map<string,string>
WellFormedCall(call) ==
    /\ call.name.ty = "str"
    /\ call.args.ty = "obj"
    /\ \A k \in DOMAIN call.args.m : call.args.m[k].ty = "str"

\* C3: when each of the max_steps replies was a well-formed tool call, the
\* run ends with the step-exhaustion record: total_score 0, max_score 100,
\* steps_taken = max_steps, after max_steps messages and without scoring.
C3_StepExhaustion ==
    (/\ pc = "done"
     /\ Len(executed) = max_steps
     /\ \A i \in 1..Len(executed) : WellFormedCall(executed[i]))
    => /\ ZeroScored(result)
       /\ result.error = "Max steps reached without final documentation"
       /\ "steps_taken" \in result.keys
       /\ result.steps_taken = max_steps
       /\ Len(sent) = max_steps
       /\ scored = <<>>

\* MaxSteps tool calls, then the exhaustion record
C3_Witness ==
    /\ pc = "done"
    /\ max_steps = MaxSteps
    /\ Len(executed) = max_steps
    /\ \A i \in 1..Len(executed) : WellFormedCall(executed[i])
    /\ result.error = "Max steps reached without final documentation"

\* C4: a timeout or a transport failure of the exchange at step k ends the run
\* at once with a 0-scored failure record carrying k and the error class; k
\* messages have been sent and none follows.
C4_TransportFailure ==
    last_reply.kind \in {"timeout", "error"}
    => /\ pc = "done"
       /\ ZeroScored(result)
       /\ "steps_taken" \in result.keys
       /\ result.steps_taken = step + 1
       /\ result.error = (IF last_reply.kind = "timeout" THEN "Timeout"
                          ELSE "Communication error")
       /\ Len(sent) = step + 1

\* a timeout at the second step
C4_Witness ==
    /\ last_reply.kind = "timeout"
    /\ step = 1
    /\ result.steps_taken = 2

\* C5: a reply at step k that decodes to an action named respond ends the run
\* there: scoring ran exactly once on the submitted readme and metadata, k
\* messages were sent, and the record has steps_taken = k and no error field.
C5_SubmissionScoredOnce ==
    (Answered /\ LastAction.status = "ok" /\ LastAction.name = RESPOND_ACTION_NAME)
    => /\ pc = "done"
       /\ result.kind = "record"
       /\ "error" \notin result.keys
       /\ result.steps_taken = step + 1
       /\ Len(sent) = step + 1
       /\ Len(scored) = 1
       /\ scored[1].response = FinalResponse(LastAction.kwargs)
       /\ scored[1].test_case = test_case.name

\* the reply decodes to a JSON object without a `name` member
LacksName(white_text) ==
    /\ "json" \in DOMAIN parse_tags(white_text) \/ HasBrace(white_text)
    /\ LET action_dict == Loads(ActionJson(white_text))
       IN  /\ action_dict.ok
           /\ action_dict.v.ty = "obj"
           /\ "name" \notin DOMAIN action_dict.v.m

\* C6: a reply whose decoded object lacks `name` ends the run with a 0-scored
\* failure record; no tool is executed for it and no further message is sent.
C6_MissingNameIsFatal ==
    (Answered /\ LacksName(LastText))
    => /\ pc = "done"
       /\ ZeroScored(result)
       /\ "error" \in result.keys
       /\ Len(executed) = step
       /\ Len(sent) = step + 1

\* lines 730-733: the text holds a tag pair
HasTagPair(white_text) == TagMatches(white_text, 1) # <<>>

\* C7: a reply at step k with no text part, or with a text holding neither a
\* tag pair nor a `{`, ends the run at once with a 0-scored protocol-violation
\* record: k messages sent, no tool executed for it, nothing scored.
C7_NoActionIsFatal ==
    (/\ last_reply.kind = "message"
     /\ \/ last_reply.parts = <<>>
        \/ ~HasTagPair(LastText) /\ ~HasBrace(LastText))
    => /\ pc = "done"
       /\ ZeroScored(result)
       /\ result.error = (IF last_reply.parts = <<>>
                          THEN "Empty response from white agent"
                          ELSE "Could not parse action from response")
       /\ Len(sent) = step + 1
       /\ Len(executed) = step
       /\ scored = <<>>

\* a text without tag pair and brace at the first step, and an empty reply
\* at the second
C7_Witness ==
    \/ /\ last_reply.kind = "message"
       /\ last_reply.parts = <<<<Prose(30, {})>>>>
       /\ Len(sent) = 1
       /\ result.error = "Could not parse action from response"
    \/ /\ last_reply.kind = "message"
       /\ last_reply.parts = <<>>
       /\ Len(sent) = 2
       /\ result.error = "Empty response from white agent"

\* the last reply was a tool call and the tool gave an error string
LastToolError ==
    /\ Answered
    /\ LastAction.status = "ok"
    /\ LastAction.name # RESPOND_ACTION_NAME
    /\ execute_tool(LastAction.name, LastAction.kwargs, test_case.repo_path).kind = "error"

\* C8: a tool call at step k < max_steps that gives an error result does not
\* end the run: the message of step k + 1 names the tool, carries the error
\* text and the invitation to continue or submit.
C8_ToolErrorIsFedBack ==
    LastToolError
    => /\ next_message.kind = "tool_result"
       /\ next_message.tool = LastAction.name
       /\ next_message.tool_result =
             execute_tool(LastAction.name, LastAction.kwargs, test_case.repo_path)
       /\ next_message.invitation
       /\ step < max_steps => pc \in {"loop", "await"}
       /\ pc = "await" => /\ Len(sent) = step + 1
                          /\ sent[Len(sent)].message = next_message

\* the message after a read_file of a missing file has gone out
C8_Witness ==
    /\ LastToolError
    /\ pc = "await"
    /\ Len(sent) = 2
    /\ sent[2].message.tool_result.msg = "File does not exist"
    /\ sent[2].message.invitation

\* C9: execute_tool never raises, whatever the operation name and the decoded
\* kwargs value.
C9_ExecuteToolNeverRaises ==
    \A i \in 1..Len(toolLog) : toolLog[i].out.kind # "raised"

\* target lies outside root: root is not a leading run of its components
OutsideRoot(target, root) ==
    ~(Len(target) >= Len(root) /\ SubSeq(target, 1, Len(root)) = root)

\* C10: read_file and list_directory answer every path that resolves outside
\* the test-case root with the access-denied error string.
C10_PathContainment ==
    \A i \in 1..Len(toolLog) :
        LET call == toolLog[i]
        IN  (/\ call.name \in {JStr(<<Word("list_directory")>>), JStr(<<Word("read_file")>>)}
             /\ call.args.ty = "obj"
             /\ "path" \in DOMAIN call.args.m
             /\ call.args.m["path"].ty = "str"
             /\ \A j \in 1..Len(call.args.m["path"].toks) :
                   call.args.m["path"].toks[j].t # "nul"
             /\ OutsideRoot(Resolve(JoinPath(call.root, call.args.m["path"].toks)),
                            Resolve(call.root)))
            => call.out = ToolError("Cannot access paths outside the repository", <<>>)


\* the path lies in a ground_truth directory
InGroundTruth(path) == \E i \in 1..Len(path) : path[i] = GROUND_TRUTH

\* the reference material: the texts of the files under ground_truth and the
\* names of the entries there
ReferenceTexts == {n.text : n \in {x \in FileSystem : x.type = "file" /\ InGroundTruth(x.path)}}
ReferenceNames ==
    {n.path[Len(n.path)] : n \in {x \in FileSystem :
        Len(x.path) > 1 /\ InGroundTruth(Front(x.path))}}

\* C11: no tool result reveals the reference material: no result of read_file
\* is the text of a file under ground_truth and no listing holds the name of
\* an entry of ground_truth.
C11_NoReferenceLeak ==
    \A i \in 1..Len(toolLog) :
        /\ toolLog[i].out.kind = "contents" => toolLog[i].out.text \notin ReferenceTexts
        /\ toolLog[i].out.kind = "listing" =>
              \A k \in 1..Len(toolLog[i].out.items) :
                  /\ toolLog[i].out.items[k] \notin ReferenceNames
                  /\ toolLog[i].out.items[k] \notin {nm \o <<47>> : nm \in ReferenceNames}

C13_ListingSorted ==
    \A i \in 1..Len(toolLog) :
        toolLog[i].out.kind = "listing" =>
            LET items == toolLog[i].out.items
                dir   == Resolve(JoinPath(toolLog[i].root,
                                          Get(toolLog[i].args, "path", JStr(<<Seg(DOT)>>)).toks))
            IN  /\ \A k \in 1..(Len(items) - 1) : LexLess(items[k], items[k + 1])
                /\ \A k \in 1..Len(items) :
                      LET suffixed == items[k][Len(items[k])] = 47
                          name == IF suffixed THEN Front(items[k]) ELSE items[k]
                      IN  suffixed <=> IsDir(Resolve(Append(dir, name)))


\* what holds of the identifiers of the messages sent so far
ContextOfSent ==
    /\ sent # <<>> => sent[1].context_id = None
    /\ \A i, j \in 1..Len(sent) :
          (i < j /\ sent[i].context_id # None) => sent[j].context_id = sent[i].context_id
    /\ pc = "await" => sent[Len(sent)].context_id = context_id

\* how the identifier changes in one step: only from None, and to the
\* identifier of the reply just received
ContextStep ==
    /\ context_id # None => context_id' = context_id
    /\ context_id' # context_id => context_id' = last_reply'.context_id

\* C14: in one run the conversation identifier is None on the first send and
\* until a reply assigns one; once assigned it never changes and every later
\* message is sent with it, whatever identifiers later replies carry.
C14_ContextPinned == [](ContextOfSent) /\ [][ContextStep]_vars

\* the second reply carries another identifier than the pinned one
C14_Witness ==
    /\ Len(sent) = 2
    /\ sent[2].context_id = "c1"
    /\ last_reply.context_id = "c2"
    /\ context_id = "c1"

\* C20: one request is outstanding at most: message N + 1 is sent only after
\* reply N was received, decoded and its tool executed, and it carries the
\* result of the tool call decoded from reply N.
C20_OneOutstanding ==
    /\ pc = "loop" => Len(sent) = step
    /\ pc = "await" => Len(sent) = step + 1
    /\ pc \in {"loop", "await"} => Len(executed) = step
    /\ (pc \in {"loop", "await"} /\ step >= 1) =>
          /\ Answered
          /\ LastAction.status = "ok"
          /\ executed[step] = [name |-> LastAction.name, args |-> LastAction.kwargs]
          /\ next_message =
                Message("tool_result", LastAction.name,
                        execute_tool(LastAction.name, LastAction.kwargs, test_case.repo_path),
                        TRUE)
    /\ pc = "await" => sent[Len(sent)].message = next_message

\* the second message carries the listing asked for by the first reply
C20_Witness ==
    /\ pc = "await"
    /\ Len(sent) = 2
    /\ LastAction.name = JStr(<<Word("list_directory")>>)
    /\ sent[2].message.tool_result.kind = "listing"
    /\ sent[2].message.tool = LastAction.name

\* vocabulary of the run aggregator
IsFailure(r) == r.error # ""
Evaluating == runPc = "case"
OwnContext == CaseContexts[case_index + 1]

RECURSIVE SumTotal(_)
SumTotal(rs) == IF rs = <<>> THEN 0 ELSE Head(rs).total_score + SumTotal(Tail(rs))

RECURSIVE SumMax(_)
SumMax(rs) == IF rs = <<>> THEN 0 ELSE Head(rs).max_score + SumMax(Tail(rs))

\* C15: in a run, the first message of every test case is sent without a
\* conversation identifier, and every message of a test case carries either no
\* identifier or the identifier of that case's own conversation, never one
\* obtained during another case, however the earlier cases ended.
C15_NoContextLeak ==
    Evaluating =>
        /\ sent # <<>> => sent[1].context_id = None
        /\ \A i \in 1..Len(sent) : sent[i].context_id \in {None, OwnContext}
        /\ context_id \in {None, OwnContext}

\* the second case of a run, after a first case that failed, has sent its first
\* message without identifier and its second with its own
C15_Witness ==
    /\ Evaluating
    /\ case_index = 1
    /\ IsFailure(results[1])
    /\ Len(sent) = 2
    /\ sent[1].context_id = None
    /\ sent[2].context_id = OwnContext

RecordsInOrder ==
    /\ Len(results) <= Len(selected_cases)
    /\ \A i \in 1..Len(results) :
           /\ results[i].test_case = selected_cases[i]
           /\ IsFailure(results[i]) => ZeroScored(results[i])

OneRecordPerCase ==
    /\ RecordsInOrder
    /\ runPc \in {"next", "case"} => Len(results) = case_index
    /\ runPc = "end" => Len(results) = Len(selected_cases)

RecordsOnlyAppended ==
    results' # results =>
        /\ Len(results') = Len(results) + 1
        /\ SubSeq(results', 1, Len(results)) = results

\* C16: in the run aggregator every selected case, however it ends (missing
\* fixture, timeout, transport error, protocol violation, exception in the loop
\* or in scoring), contributes exactly one record, a failure contributes a
\* 0-scored one, the later selected cases are still evaluated and recorded, and
\* records already made never change.
C16_FailureIsolated == [](OneRecordPerCase) /\ [][RecordsOnlyAppended]_vars

\* a finished run whose first case failed and whose second case was scored
C16_Witness ==
    /\ runPc = "end"
    /\ Len(results) = 2
    /\ IsFailure(results[1])
    /\ ~IsFailure(results[2])
    /\ results[2].total_score > 0

\* C17: throughout the aggregation loop and after it, max_possible is 100 times
\* the number of records, total_score is the sum of the records' total_score,
\* and 0 <= total_score <= max_possible, on success and on failure alike.
C17_Totals ==
    /\ max_possible = 100 * Len(results)
    /\ total_score = SumTotal(results)
    /\ 0 <= total_score
    /\ total_score <= max_possible

\* a run that has recorded a failure raised by load_test_case, a failure raised
\* by evaluate_test_case or returned by it, and a scored case
C17_Witness ==
    /\ Len(results) = 3
    /\ \E i, j \in 1..3 :
           /\ IsFailure(results[i])
           /\ ~IsFailure(results[j])
           /\ results[j].total_score > 0
    /\ results[3].test_case = "x"

\* C18: the success flag of the summary is true exactly when the sum of the
\* records' total_score times 100 is at least 60 times the sum of their
\* max_score (60% itself succeeds), and false otherwise, also when every case
\* failed.
C18_SuccessThreshold ==
    \A i \in 1..Len(enqueued) :
        enqueued[i].kind = "summary" =>
            (enqueued[i].success <=> SumTotal(results) * 100 >= 60 * SumMax(results))

\* a run that ends at exactly 60% and is reported a success
C18_Witness ==
    /\ enqueued # <<>>
    /\ enqueued[1].kind = "summary"
    /\ SumTotal(results) > 0
    /\ SumTotal(results) * 100 = 60 * SumMax(results)
    /\ enqueued[1].success

\* a run in which every case failed is reported a failure
C18_WitnessAllFailed ==
    /\ enqueued # <<>>
    /\ enqueued[1].kind = "summary"
    /\ Len(results) = 2
    /\ \A i \in 1..2 : IsFailure(results[i])
    /\ ~enqueued[1].success

CaseInTurn ==
    Evaluating =>
        /\ Len(results) = case_index
        /\ test_case.name = selected_cases[case_index + 1]
        /\ RecordsInOrder

StartsAfterRecord ==
    (pc' = "loop" /\ pc \notin {"loop", "await"}) =>
        /\ pc = "idle"
        /\ runPc = "next"
        /\ Len(results) = case_index
        /\ test_case'.name = selected_cases[Len(results) + 1]

SendsInTurn ==
    (sent' # sent /\ sent' # <<>>) =>
        /\ Evaluating
        /\ pc = "loop"
        /\ Len(results) = case_index
        /\ test_case.name = selected_cases[Len(results) + 1]

\* C19: within a run the test cases are evaluated one after the other in
\* selection order: the fixture of a case is loaded, and its messages are sent,
\* only when every earlier selected case has reached its outcome and has its
\* record appended.
C19_Sequential == [](CaseInTurn) /\ [][StartsAfterRecord /\ SendsInTurn]_vars

\* the second case of a run has sent a message, the record of the first is there
C19_Witness ==
    /\ Evaluating
    /\ case_index = 1
    /\ Len(results) = 1
    /\ test_case.name = selected_cases[2]
    /\ sent # <<>>

\* the last exchange failed in transport: a timeout, a connection error, or an
\* envelope that is not a success response holding a message
TransportFailed == last_reply.kind \in {"timeout", "error", "rpc_error", "task"}

\* C30: every transport-failure record, for a timeout, a connection error and
\* a malformed or unexpected response envelope alike, is a 0-scored record that
\* carries the number of the step at which the failure occurred.
C30_TransportRecordHasStep ==
    (pc = "done" /\ TransportFailed) =>
        /\ ZeroScored(result)
        /\ "steps_taken" \in result.keys
        /\ result.steps_taken = step + 1

\* vocabulary of the scoring engine: the call made, its input and its outcome
Scored == scoreOut # <<>>
ScoreInput == scoreIn[1]
ScoreResult == scoreOut[1]
Submission == ParseResponse(ScoreInput.response)

\* the README and the metadata of a decoded submission, as the rubric reads them
ReadmeOf(v) == IF v.ty = "obj" THEN Get(v, "readme", JStr(<<>>)) ELSE JStr(<<>>)
MetadataOf(v) == IF v.ty = "obj" THEN Get(v, "metadata", JObj(EmptyMap)) ELSE JObj(EmptyMap)

ClaimedTier1(v) ==
    5 + (IF ReadmeOf(v).ty = "str" /\ TextLen(ReadmeOf(v).toks) > 100 THEN 5 ELSE 0)
      + (IF /\ MetadataOf(v).ty = "obj"
            /\ Get(MetadataOf(v), "@context", JNull) = SCHEMA_ORG
            /\ Truthy(Get(MetadataOf(v), "@type", JNull))
            /\ Truthy(Get(MetadataOf(v), "name", JNull))
         THEN 5 ELSE 0)

\* C21: for every submission that parses, tier 1 is 5, plus 5 if the README is
\* longer than 100 characters (100 earns nothing, 101 earns them), plus 5 if the
\* metadata has @context "https://schema.org", a non-empty @type and a non-empty
\* name (one or two of the three earn nothing).
C21_Tier1Formula ==
    (Scored /\ Submission.ok) =>
        /\ ~ScoreResult.raised
        /\ ScoreResult.rec.tier1_structural = ClaimedTier1(Submission.v)

\* a word of the section's keyword list occurs in the README, in any case
Hit(readme, section) ==
    \/ \E i \in 1..Len(readme) : readme[i].t = "prose" /\ section \in readme[i].kws
    \/ section = "example" /\ \E i \in 1..Len(readme) : readme[i].t \in {"fence", "fence_json"}

ClaimedTier2(readme) ==
    (IF Hit(readme, "installation") THEN 8 ELSE 0)
      + (IF Hit(readme, "usage") THEN 9 ELSE 0)
      + (IF Hit(readme, "example") THEN 8 ELSE 0)

\* C22: for every README, tier 2 is 8 for an installation keyword, plus 9 for a
\* usage keyword, plus 8 for an example keyword, a keyword being found whatever
\* its case and several keywords of one set counting once, so that tier 2 is
\* one of 0, 8, 9, 16, 17, 25.
C22_Tier2Formula ==
    (Scored /\ ~ScoreResult.raised /\ Submission.ok /\ ReadmeOf(Submission.v).ty = "str") =>
        /\ ScoreResult.rec.tier2_sections = ClaimedTier2(ReadmeOf(Submission.v).toks)
        /\ ScoreResult.rec.tier2_sections \in {0, 8, 9, 16, 17, 25}

\* a README whose only keyword is written in capitals has been scored 9
C22_Witness ==
    /\ Scored
    /\ ~ScoreResult.raised
    /\ Submission.ok
    /\ ReadmeOf(Submission.v) = JStr(README_CAPS)
    /\ ScoreResult.rec.tier2_sections = 9

\* a README with two installation keywords and a code fence has been scored 16
C22_WitnessOnce ==
    /\ Scored
    /\ ~ScoreResult.raised
    /\ Submission.ok
    /\ ReadmeOf(Submission.v) = JStr(README_TWICE)
    /\ ScoreResult.rec.tier2_sections = 16

\* the judge was called for the tier
Judged(tier) == \E i \in 1..Len(ScoreResult.judged) : ScoreResult.judged[i] = tier

\* C23: for every submission that parses to a record, if the test case has no
\* fact sheet then tier 3 is exactly 15 and the judge is not called for tier 3,
\* whatever the readme is, an empty or missing one included.
C23_NoFactsFifteen ==
    (Scored /\ ~ScoreResult.raised /\ Submission.ok /\ Submission.v.ty = "obj"
        /\ ~Truthy(ScoreInput.test_case.facts)) =>
        /\ ScoreResult.rec.tier3_accuracy = 15
        /\ ~Judged("tier3")

\* the JSON a judge reply carries, bare or between a pair of code fences
Unfenced(text) ==
    LET t == Strip(text)
        opened == IF t # <<>> /\ t[1].t \in {"fence", "fence_json"} THEN Tail(t) ELSE t
        closed == IF opened # <<>> /\ opened[Len(opened)].t = "fence"
                  THEN SubSeq(opened, 1, Len(opened) - 1) ELSE opened
    IN  Strip(closed)

JudgePayload(reply) == Loads(Unfenced(reply.text))

\* a well-formed judge reply: an object whose sub-scores, where present, are numbers
WellFormed(reply, keys) ==
    /\ ~reply.raised
    /\ JudgePayload(reply).ok
    /\ JudgePayload(reply).v.ty = "obj"
    /\ \A i \in 1..3 : Get(JudgePayload(reply).v, keys[i], JNum(0)).ty = "num"

ClaimedClamp(x, lo, hi) ==
    LET floored == IF x > lo THEN x ELSE lo
    IN  IF hi < floored THEN hi ELSE floored

ClaimedJudged(reply, keys) ==
    ClaimedClamp(Get(JudgePayload(reply).v, keys[1], JNum(0)).n, 0, 12)
      + ClaimedClamp(Get(JudgePayload(reply).v, keys[2], JNum(0)).n, 0, 10)
      + ClaimedClamp(Get(JudgePayload(reply).v, keys[3], JNum(0)).n, 0, 8)

\* C24: when the judge returns a well-formed reply, tier 3 is
\* clamp(purpose,0,12) + clamp(dependencies,0,10) + clamp(run_command,0,8) and
\* tier 4 is clamp(clarity,0,12) + clamp(completeness,0,10) + clamp(formatting,0,8),
\* a sub-score absent from the reply counting as 0, for negative and over-range
\* integer sub-scores too.
C24_ClampedSum ==
    (Scored /\ ~ScoreResult.raised) =>
        /\ (Judged("tier3") /\ WellFormed(ScoreInput.judge3, TIER3_KEYS)) =>
               ScoreResult.rec.tier3_accuracy = ClaimedJudged(ScoreInput.judge3, TIER3_KEYS)
        /\ (Judged("tier4") /\ WellFormed(ScoreInput.judge4, TIER4_KEYS)) =>
               ScoreResult.rec.tier4_quality = ClaimedJudged(ScoreInput.judge4, TIER4_KEYS)

\* tier 3 judged with an over-range, a negative and an in-range sub-score, and
\* tier 4 judged with a reply that has only one sub-score
C24_Witness ==
    /\ Scored
    /\ ~ScoreResult.raised
    /\ Judged("tier3")
    /\ Judged("tier4")
    /\ JudgePayload(ScoreInput.judge3).ok
    /\ JudgePayload(ScoreInput.judge3).v =
           Scores(TIER3_KEYS, JNum(12 + JudgeOver), JNum(0 - JudgeOver), JNum(8))
    /\ ScoreResult.rec.tier3_accuracy = 20
    /\ JudgePayload(ScoreInput.judge4).ok
    /\ JudgePayload(ScoreInput.judge4).v = JObj([k \in {"clarity"} |-> JNum(5)])
    /\ ScoreResult.rec.tier4_quality = 5

\* a judge reply with every sub-score at its maximum
FullMarks(keys) == JudgeReply(FALSE, Dumps(Scores(keys, JNum(12), JNum(10), JNum(8))))

\* the same call with the judge succeeding for tier 3, and for tier 4
WithJudge3 ==
    score_documentation(ScoreInput.response, ScoreInput.test_case,
                        FullMarks(TIER3_KEYS), ScoreInput.judge4)
WithJudge4 ==
    score_documentation(ScoreInput.response, ScoreInput.test_case,
                        ScoreInput.judge3, FullMarks(TIER4_KEYS))

Tier3JudgeFailed == Judged("tier3") /\ ~WellFormed(ScoreInput.judge3, TIER3_KEYS)
Tier4JudgeFailed == Judged("tier4") /\ ~WellFormed(ScoreInput.judge4, TIER4_KEYS)

\* C25: a judge failure in one judged tier (the call raises, the reply is not
\* JSON, the reply has the wrong shape) makes exactly that tier 0 with an error
\* detail; nothing is raised out of score_documentation, and tier 1, tier 2 and
\* the other judged tier have the values they have when that judge call succeeds.
C25_JudgeFailureIsLocal ==
    Scored =>
        /\ Tier3JudgeFailed =>
               /\ ~ScoreResult.raised
               /\ ScoreResult.rec.tier3_accuracy = 0
               /\ ScoreResult.rec.details.tier3_error
               /\ ~WithJudge3.raised
               /\ ScoreResult.rec.tier1_structural = WithJudge3.rec.tier1_structural
               /\ ScoreResult.rec.tier2_sections = WithJudge3.rec.tier2_sections
               /\ ScoreResult.rec.tier4_quality = WithJudge3.rec.tier4_quality
        /\ Tier4JudgeFailed =>
               /\ ~ScoreResult.raised
               /\ ScoreResult.rec.tier4_quality = 0
               /\ ScoreResult.rec.details.tier4_error
               /\ ~WithJudge4.raised
               /\ ScoreResult.rec.tier1_structural = WithJudge4.rec.tier1_structural
               /\ ScoreResult.rec.tier2_sections = WithJudge4.rec.tier2_sections
               /\ ScoreResult.rec.tier3_accuracy = WithJudge4.rec.tier3_accuracy

\* the tier 3 judge call raised while the tier 4 judge gave full marks
C25_Witness ==
    /\ Scored
    /\ Judged("tier3")
    /\ ScoreInput.judge3.raised
    /\ ScoreResult.rec.tier3_accuracy = 0
    /\ ScoreResult.rec.details.tier3_error
    /\ ScoreResult.rec.tier4_quality = 30
    /\ ~ScoreResult.rec.details.tier4_error
    /\ ScoreResult.rec.tier1_structural = 15
    /\ ScoreResult.rec.tier2_sections = 25

\* C26: if step 0, the parsing of the submission text, fails, score_documentation
\* returns a record whose four tiers and total_score are 0 and whose details
\* hold a parse error, and no later tier runs: the judge is never called.
C26_ParseFailureRecord ==
    (Scored /\ ~Submission.ok) =>
        /\ ~ScoreResult.raised
        /\ ScoreResult.rec.tier1_structural = 0
        /\ ScoreResult.rec.tier2_sections = 0
        /\ ScoreResult.rec.tier3_accuracy = 0
        /\ ScoreResult.rec.tier4_quality = 0
        /\ ScoreResult.rec.total_score = 0
        /\ ScoreResult.rec.details.parse_error
        /\ ScoreResult.judged = <<>>

\* a submission that is prose, not JSON, has been scored
C26_Witness ==
    /\ Scored
    /\ ScoreInput.response = <<Prose(40, {})>>
    /\ ~Submission.ok
    /\ ScoreResult.rec.total_score = 0
    /\ ScoreResult.rec.details.parse_error

\* the (readme, metadata) pair of every submission text that decodes to an object
PairOfText ==
    [text \in ScoreTexts |->
        LET p == ParseResponse(text)
        IN  IF p.ok /\ p.v.ty = "obj"
            THEN [has |-> TRUE, readme |-> ReadmeOf(p.v), metadata |-> MetadataOf(p.v)]
            ELSE [has |-> FALSE, readme |-> JNull, metadata |-> JNull]]

\* every submission text scored for one fixed test case and one fixed judge
ReferenceRun ==
    [text \in ScoreTexts |->
        score_documentation(text, TestCase("ref", <<>>, JNull, JNull),
                            FullMarks(TIER3_KEYS), FullMarks(TIER4_KEYS))]

\* C27: tier 1 and tier 2 are functions of the (readme, metadata) pair alone:
\* two scoring runs on identical pairs give the same tier 1 and the same tier 2
\* whatever the judge returns in each run and whatever fact sheet or reference
\* README the test case has.
C27_DeterministicTiers ==
    (Scored /\ PairOfText[ScoreInput.response].has) =>
        \A text \in ScoreTexts :
            PairOfText[text] = PairOfText[ScoreInput.response] =>
                /\ ReferenceRun[text].raised = ScoreResult.raised
                /\ ReferenceRun[text].rec.tier1_structural = ScoreResult.rec.tier1_structural
                /\ ReferenceRun[text].rec.tier2_sections = ScoreResult.rec.tier2_sections

\* a fenced submission scored for a test case with a fact sheet while both judge
\* calls fail has the tier 1 and tier 2 of the bare submission in the reference run
C27_Witness ==
    /\ Scored
    /\ ScoreInput.response # Dumps(Doc(JStr(README_GOOD), METADATA_FULL))
    /\ PairOfText[ScoreInput.response] = PairOfText[Dumps(Doc(JStr(README_GOOD), METADATA_FULL))]
    /\ Truthy(ScoreInput.test_case.facts)
    /\ ScoreInput.judge3.raised
    /\ ScoreInput.judge4.raised
    /\ ScoreResult.rec.tier1_structural = 15
    /\ ScoreResult.rec.tier2_sections = 25
    /\ ScoreResult.rec.total_score = 40

\* vocabulary of the parsers: the call made, its text and its outcomes
Parsed == parseOut # <<>>
ParsedText == parseIn[1].text
ParsedAction == parseOut[1].action
Extracted == parseOut[1].extracted

\* the JSON texts the strategies of the action parser look at, in their order:
\* the interior of the tag pair, the object after a labeled fence, the content
\* of a fenced block, the whole text, the span from the first { to the last }
StrategyTexts(text) ==
    (IF "json" \in DOMAIN parse_tags(text) THEN <<parse_tags(text)["json"]>> ELSE <<>>)
    \o (IF HasJsonFence(text) THEN <<BraceSpan(AfterJsonFence(text))>> ELSE <<>>)
    \o (IF PlainFence(text).found THEN <<PlainFence(text).content>> ELSE <<>>)
    \o <<Strip(text)>>
    \o (IF HasBrace(text) THEN <<BraceSpan(text)>> ELSE <<>>)

\* the strategies that yield a JSON object
Yielding(text) ==
    {i \in 1..Len(StrategyTexts(text)) :
        Loads(StrategyTexts(text)[i]).ok /\ Loads(StrategyTexts(text)[i]).v.ty = "obj"}

FirstYield(text) ==
    Loads(StrategyTexts(text)[CHOOSE i \in Yielding(text) : \A j \in Yielding(text) : i <= j]).v

\* C28: the action parser tries its strategies in order and the first one that
\* yields valid JSON wins; parsing fails only if none does.  A reply whose tag
\* interior is not valid JSON but which holds a JSON object that a later
\* strategy reaches (labeled fence, raw text, first { to last }) still parses.
C28_FirstSuccessWins ==
    (Parsed /\ Yielding(ParsedText) # {}) =>
        /\ ParsedAction.status = "ok"
        /\ ParsedAction.name = Get(FirstYield(ParsedText), "name", JStr(<<>>))
        /\ ParsedAction.kwargs = Get(FirstYield(ParsedText), "kwargs", JObj(EmptyMap))

\* the same property of extract_json, the parser of the candidate agent
ExtractFirstSuccessWins ==
    (Parsed /\ Yielding(ParsedText) # {}) =>
        /\ Extracted.status = "ok"
        /\ Extracted.v = FirstYield(ParsedText)

\* the state's reply wraps its payload in a fenced block labeled as JSON
FencedReply == Parsed /\ parseIn[1].wrapping = "fenced_json"

\* the same payload wrapped in the distinguished tag pair
TaggedTwin == Wrap("tagged", parseIn[1].payload)

\* C29: for every action payload, the text wrapping it in the <json> tag pair
\* and the text wrapping it in a fenced block labeled json parse to the same
\* structured object (same name, same kwargs), in the orchestrator's parser
\* and in extract_json alike.
C29_TagFenceRoundTrip ==
    FencedReply =>
        /\ ParsedAction = ParseAction(TaggedTwin)
        /\ Extracted = extract_json(TaggedTwin)

\* the round trip restricted to payloads whose strings hold no tag of the protocol
NoTagInside(text) == \A i \in 1..Len(text) : text[i].t \notin {"open", "close"}

TagFenceRoundTripPlain ==
    (FencedReply /\ NoTagInside(parseIn[1].payload)) =>
        /\ ParsedAction.status = "ok"
        /\ ParsedAction = ParseAction(TaggedTwin)
        /\ Extracted.status = "ok"
        /\ Extracted = extract_json(TaggedTwin)

\* the identifiers the request names, when it names any
Requested == test_ids.ids

\* C31: every test-case identifier requested in the run configuration yields
\* exactly one record, in request order: when the run has ended, the number of
\* records and max_possible / 100 both equal the number of requested
\* identifiers, and the i-th record is the record of the i-th requested one.
C31_OneRecordPerRequestedId ==
    (runPc = "end" /\ test_ids.given) =>
        /\ Len(results) = Len(Requested)
        /\ max_possible = 100 * Len(Requested)
        /\ \A i \in 1..Len(results) :
               /\ Requested[i] < Len(all_test_cases)
               /\ results[i].test_case = all_test_cases[Requested[i] + 1]

\* a requested directory without metadata.json is recorded, not dropped
MissingFixtureRecorded ==
    (runPc = "end" /\ test_ids.given) =>
        \A i \in 1..Len(selected_cases) :
            selected_cases[i] = "x" =>
                /\ results[i].test_case = "x"
                /\ IsFailure(results[i])
                /\ results[i].total_score = 0
                /\ results[i].max_score = 100

\* execute has returned or an exception has left it
RunOver == runPc \in {"end", "raised"}

\* a fault left execute uncaught
Propagated == runPc = "raised"

\* C32: for every request received by the run aggregator (any task text, any
\* test configuration, any per-case outcome), when every exchange with the
\* candidate agent and every judge call returns or fails, execute eventually
\* enqueues exactly one reply message, the run summary or the no-test-cases
\* error, and no fault propagates out of it uncaught.
C32_AlwaysOneReply ==
    /\ [](~Propagated)
    /\ [](Len(enqueued) <= 1)
    /\ <>(runPc = "end" /\ Len(enqueued) = 1)

\* a request whose test configuration can be read is answered exactly once:
\* execute returns, and then one message is on the queue
UsableConfigAnswered ==
    ~TestConfig(user_input).raised =>
        /\ ~Propagated
        /\ Len(enqueued) = (IF runPc = "end" THEN 1 ELSE 0)

\* the reply was classified as a submission and its re-serialised payload was
\* passed to the scoring engine
SubmissionScored == pc = "done" /\ scored # <<>>

\* the submitted readme is a string
ReadmeIsString ==
    /\ LastAction.kwargs.ty = "obj"
    /\ Get(LastAction.kwargs, "readme", JStr(<<>>)).ty = "str"

\* C33: whenever the orchestrator classifies a reply as a submission and passes
\* the re-serialised {readme, metadata} payload to the scoring engine, step 0
\* of scoring parses it: the record has details.valid_json true and at least 5
\* points in tier 1, for every readme, also one that holds code fences.
C33_ReserialisedPayloadParses ==
    (SubmissionScored /\ ReadmeIsString) =>
        /\ result.kind = "record"
        /\ result.score.details.valid_json
        /\ ~result.score.details.parse_error
        /\ result.score.tier1_structural >= 5

\* the same for submissions whose readme holds no fence labeled json
NoJsonFenceInside == ~HasJsonFence(scored[1].response)

ReserialisedPlainPayloadParses ==
    (SubmissionScored /\ ReadmeIsString /\ NoJsonFenceInside) =>
        /\ result.kind = "record"
        /\ result.score.details.valid_json
        /\ result.score.tier1_structural >= 5

\* evaluate_test_case returned a record that has a steps_taken field
HasStepsTaken == pc = "done" /\ result.kind = "record" /\ "steps_taken" \in result.keys

\* C34: in every record returned by evaluate_test_case that has a steps_taken
\* field, steps_taken is the number of messages the orchestrator sent, or
\* tried to send, to the candidate agent in that test case, and lies between 0
\* and max_steps; with max_steps = 0 no message is sent and the exhaustion
\* record has steps_taken = 0.
C34_StepsTakenCountsMessages ==
    /\ HasStepsTaken =>
           /\ result.steps_taken = Len(sent)
           /\ 0 <= result.steps_taken
           /\ result.steps_taken <= max_steps
    /\ max_steps = 0 =>
           /\ sent = <<>>
           /\ pc = "done" => (HasStepsTaken /\ result.steps_taken = 0 /\ IsFailure(result))

\* a case that ran out of steps after two messages
C34_Witness ==
    /\ HasStepsTaken
    /\ max_steps = 2
    /\ Len(sent) = 2
    /\ result.steps_taken = 2
    /\ result.error = "Max steps reached without final documentation"

\* a case with no step at all
C34_WitnessZero ==
    /\ HasStepsTaken
    /\ max_steps = 0
    /\ result.steps_taken = 0

\* vocabulary of the candidate agents
LastTurn(log) == log[Len(log)]

\* a step that is a turn on conversation ctx_id takes map to map2 keeping
\* every entry, adding at most that of ctx_id, and changing no other
TurnKeepsOthers(map, map2, ctx_id) ==
    /\ ctx_id \in DOMAIN map2
    /\ DOMAIN map2 = DOMAIN map \cup {ctx_id}
    /\ \A other \in DOMAIN map : other # ctx_id => map2[other] = map[other]

WhiteFrame ==
    whiteLog' # whiteLog =>
        /\ TurnKeepsOthers(ctx_id_to_messages, ctx_id_to_messages',
                           LastTurn(whiteLog').ctx_id)
        /\ ctx_id_to_state' = ctx_id_to_state

White2Frame ==
    white2Log' # white2Log =>
        /\ TurnKeepsOthers(ctx_id_to_state, ctx_id_to_state', LastTurn(white2Log').ctx_id)
        /\ ctx_id_to_messages' = ctx_id_to_messages

\* C35: in both candidate agents the per-conversation state map gains an entry
\* for a conversation identifier on that conversation's first turn, no entry
\* is ever removed, and a turn on conversation A leaves the stored state of
\* every other conversation B unchanged, for any interleaving of turns.
C35_ConversationsIsolated == [][WhiteFrame /\ White2Frame]_vars

\* turns on c1, c2 and c1 again: c2 still has the state it began with
C35_Witness ==
    /\ Len(white2Log) = 3
    /\ white2Log[1].ctx_id = "c1"
    /\ white2Log[2].ctx_id = "c2"
    /\ white2Log[3].ctx_id = "c1"
    /\ ctx_id_to_state["c2"] = InitialState
    /\ ctx_id_to_state["c1"] # InitialState

\* the same in the white agent, after a turn of c1 in which the model failed
C35_WitnessWhite ==
    /\ Len(whiteLog) = 3
    /\ whiteLog[1].ctx_id = "c2"
    /\ whiteLog[2].ctx_id = "c1"
    /\ ~whiteLog[2].replied
    /\ Len(ctx_id_to_messages["c2"]) = 3

\* the turns of the log that are not the first of their conversation and were
\* answered
LaterTurns == { i \in 1..Len(white2Log) :
                  white2Log[i].phase # "new" /\ white2Log[i].action # NoAction }

\* C36: in the white2 agent, on every non-initial turn, whatever the tool
\* result and whatever the planner's and the generator's language-model output
\* (unparseable output and empty file lists included), the graph leaves
\* next_action set: the fallback branch of execute is never taken, and a
\* respond action is only ever produced by generator_node.
C36_FallbackNeverTaken ==
    \A i \in LaterTurns :
        /\ ~white2Log[i].fallback
        /\ white2Log[i].action.name = "respond" =>
               ctx_id_to_state[white2Log[i].ctx_id].phase = "done"

\* the fallback is taken in turns that began in the planning phase only
FallbackOnlyFromPlanning ==
    \A i \in LaterTurns : white2Log[i].fallback => white2Log[i].phase = "planning"

PhaseRank(phase) ==
    CASE phase = "planning" -> 0
      [] phase = "exploring" -> 1
      [] phase = "generating" -> 2
      [] phase = "done" -> 3

\* the turns of a conversation, as positions of the log
TurnsOf(ctx_id) == { i \in 1..Len(white2Log) : white2Log[i].ctx_id = ctx_id }

\* the first turn of every conversation, and no other, is answered with
\* list_directory on "."
FirstReplyListsRoot ==
    \A i \in 1..Len(white2Log) :
        LET first == \A j \in TurnsOf(white2Log[i].ctx_id) : i <= j
        IN  /\ first <=> white2Log[i].phase = "new"
            /\ first => white2Log[i].action = ListDirectory(CUR_DIR)

\* a conversation that is done has replied the respond action it stores
DoneHasResponded ==
    \A c \in DOMAIN ctx_id_to_state :
        ctx_id_to_state[c].phase = "done" =>
            /\ ctx_id_to_state[c].next_action.name = "respond"
            /\ \E i \in TurnsOf(c) :
                   /\ \A j \in TurnsOf(c) : j <= i
                   /\ white2Log[i].action = ctx_id_to_state[c].next_action

PhaseOnlyAdvances ==
    \A c \in DOMAIN ctx_id_to_state :
        PhaseRank(ctx_id_to_state'[c].phase) >= PhaseRank(ctx_id_to_state[c].phase)

\* a turn on a conversation that is done replies the stored respond action
\* and leaves the conversation done
DoneRepeatsResponse ==
    (white2Log' # white2Log /\ LastTurn(white2Log').phase = "done") =>
        LET turn == LastTurn(white2Log')
        IN  /\ turn.action = ctx_id_to_state[turn.ctx_id].next_action
            /\ turn.action.name = "respond"
            /\ ~turn.fallback
            /\ ctx_id_to_state'[turn.ctx_id].phase = "done"
            /\ ctx_id_to_state'[turn.ctx_id].next_action = turn.action

\* C37: in the white2 agent the phase of a conversation only ever advances in
\* the order planning, exploring, generating, done (steps may be skipped,
\* never reversed), the first reply of every new conversation is
\* list_directory on ".", and once the phase is done every later turn returns
\* the same respond action.
C37_PhasesAdvance ==
    /\ [](FirstReplyListsRoot /\ DoneHasResponded)
    /\ [][PhaseOnlyAdvances /\ DoneRepeatsResponse]_vars

\* a conversation that was done after its second turn answers the third turn
\* with the same respond action
C37_Witness ==
    /\ Len(white2Log) = 3
    /\ TurnsOf("c1") = {1, 2, 3}
    /\ white2Log[1].action = ListDirectory(CUR_DIR)
    /\ white2Log[3].phase = "done"
    /\ white2Log[3].action.name = "respond"
    /\ white2Log[3].action = white2Log[2].action

\* a conversation that went through exploring before it was done
C37_WitnessExplored ==
    /\ Len(white2Log) = 3
    /\ white2Log[2].phase = "planning"
    /\ white2Log[3].phase = "exploring"
    /\ ctx_id_to_state["c1"].phase = "done"

\* the turns of a conversation that brought a read_file result while it was
\* exploring
ReadTurns(ctx_id) ==
    { i \in TurnsOf(ctx_id) :
        white2Log[i].phase = "exploring" /\ white2Log[i].tool_name = "read_file" }

\* execute raised in no turn of the conversation
NeverRaised(ctx_id) == \A i \in TurnsOf(ctx_id) : white2Log[i].action # NoAction

\* a read_file result in the exploring phase puts the requested path into files_read
ReadIsStored ==
    (white2Log' # white2Log /\ LastTurn(white2Log').phase = "exploring"
        /\ LastTurn(white2Log').tool_name = "read_file") =>
        LET ctx_id == LastTurn(white2Log').ctx_id
            requested == ctx_id_to_state[ctx_id].next_action
        IN  requested.name = "read_file" =>
                requested.path \in ctx_id_to_state'[ctx_id].files_read

\* explorer_node requests no path that is in files_read
RequestsAreNew ==
    (white2Log' # white2Log /\ LastTurn(white2Log').phase = "exploring"
        /\ LastTurn(white2Log').action.name = "read_file") =>
        LET ctx_id == LastTurn(white2Log').ctx_id
        IN  LastTurn(white2Log').action.path \notin ctx_id_to_state'[ctx_id].files_read

\* a conversation still exploring has had fewer read_file turns than its plan
\* has entries
ExploringIsBounded ==
    \A c \in DOMAIN ctx_id_to_state :
        (ctx_id_to_state[c].phase = "exploring" /\ NeverRaised(c) /\ ReadTurns(c) # {}) =>
            Cardinality(ReadTurns(c)) < Len(ctx_id_to_state[c].exploration_plan)

\* C38: in the white2 agent's exploring phase, for every exploration plan
\* (duplicates and empty strings included), each read_file tool result adds
\* the requested path to files_read, explorer_node never requests a path
\* already in files_read, and the conversation leaves the exploring phase
\* after at most len(exploration_plan) read_file turns.
C38_ExplorationTerminates ==
    /\ [](ExploringIsBounded)
    /\ [][ReadIsStored /\ RequestsAreNew]_vars

\* the same for the conversations whose plan holds no empty path
PlanWithoutEmptyPath(ctx_id) ==
    EMPTY_PATH \notin Range(ctx_id_to_state[ctx_id].exploration_plan)

ExplorationOfNamedFilesTerminates ==
    /\ [](\A c \in DOMAIN ctx_id_to_state :
            (PlanWithoutEmptyPath(c) /\ ctx_id_to_state[c].phase = "exploring"
                /\ NeverRaised(c) /\ ReadTurns(c) # {}) =>
                Cardinality(ReadTurns(c)) < Len(ctx_id_to_state[c].exploration_plan))
    /\ [][(white2Log' # white2Log
            /\ LastTurn(white2Log').ctx_id \in DOMAIN ctx_id_to_state
            /\ PlanWithoutEmptyPath(LastTurn(white2Log').ctx_id)) =>
                (ReadIsStored /\ RequestsAreNew)]_vars

\* the turns of a conversation with the white agent that were replied to
Replied(ctx_id) ==
    { i \in 1..Len(whiteLog) : whiteLog[i].ctx_id = ctx_id /\ whiteLog[i].replied }

\* the system prompt, then user and assistant messages in turn
Alternating(messages) ==
    /\ messages # <<>>
    /\ messages[1] = SYSTEM_PROMPT
    /\ \A i \in 2..Len(messages) :
           messages[i].role = (IF i % 2 = 0 THEN "user" ELSE "assistant")

\* C39: in the white agent, after any sequence of turns, turns whose
\* language-model call fails included, the stored history of every
\* conversation is the system prompt followed by strictly alternating user
\* and assistant messages, so between turns its length is 1 + 2k, k being the
\* number of turns replied to on that conversation.
C39_HistoryAlternates ==
    \A c \in DOMAIN ctx_id_to_messages :
        /\ Alternating(ctx_id_to_messages[c])
        /\ Len(ctx_id_to_messages[c]) = 1 + 2 * Cardinality(Replied(c))

\* the same while every call of the language model has succeeded
EveryTurnReplied == \A i \in 1..Len(whiteLog) : whiteLog[i].replied

HistoryAlternatesWhileReplied ==
    EveryTurnReplied =>
        \A c \in DOMAIN ctx_id_to_messages :
            /\ Alternating(ctx_id_to_messages[c])
            /\ Len(ctx_id_to_messages[c]) = 1 + 2 * Cardinality(Replied(c))

====
